---- MODULE Spec2Model ----
(***************************************************************************)
(* The Lua source-text transformer of server/services/luaProcessor.ts.     *)
(* A text is a JavaScript string: a sequence of UTF-16 code units, written *)
(* here as a sequence of numbers (<<104, 105>> is "hi").                   *)
(***************************************************************************)
EXTENDS Integers, Sequences, FiniteSets, TLC

\* ------------------------------------------------------------ characters

Digits == 48..57
Upper == 65..90
Lower == 97..122
\* \w of a JavaScript regular expression without the u or i flag
WordChars == Digits \cup Upper \cup Lower \cup {95}
\* [a-zA-Z_]
IdentStart == Upper \cup Lower \cup {95}
\* [a-fA-F0-9]
HexDigits == Digits \cup (65..70) \cup (97..102)
\* \s of a JavaScript regular expression, which is also what trim() strips
WhiteSpace ==
  {9, 10, 11, 12, 13, 32, 160, 5760, 8232, 8233, 8239, 8287, 12288, 65279}
    \cup (8192..8202)
\* the characters the regular expression dot does not match
LineTerminators == {10, 13, 8232, 8233}
\* the leading and trailing halves of a surrogate pair
HighSurrogates == 55296..56319
LowSurrogates == 56320..57343

\* ------------------------------------------------------ string primitives

\* s.startsWith(lit, i - 1): lit occurs in s at the 1-based position i
StartsAt(s, i, lit) ==
  /\ i >= 1
  /\ i + Len(lit) - 1 <= Len(s)
  /\ \A k \in 1..Len(lit) : s[i + k - 1] = lit[k]

Min(S) == CHOOSE x \in S : \A y \in S : x <= y
Max(S) == CHOOSE x \in S : \A y \in S : x >= y

\* the greedy class*: the first position from i on whose character is not in S
SkipIn(s, i, S) ==
  IF i > Len(s) THEN i
  ELSE Min({k \in i..Len(s) : s[k] \notin S} \cup {Len(s) + 1})

\* the greedy [^...]*: the first position from i on whose character is in S
SkipNotIn(s, i, S) ==
  IF i > Len(s) THEN i
  ELSE Min({k \in i..Len(s) : s[k] \in S} \cup {Len(s) + 1})

\* \b between the characters i - 1 and i of s
WordBoundary(s, i) ==
  LET before == i > 1 /\ i - 1 <= Len(s) /\ s[i - 1] \in WordChars
      after == i >= 1 /\ i <= Len(s) /\ s[i] \in WordChars
  IN before # after

\* s.slice(i - 1): the text from position i on
From(s, i) == SubSeq(s, i, Len(s))

\* the elements of a list of texts joined by sep
RECURSIVE Join(_, _)
Join(parts, sep) ==
  IF Len(parts) = 0 THEN <<>>
  ELSE IF Len(parts) = 1 THEN parts[1]
  ELSE parts[1] \o sep \o Join(Tail(parts), sep)

\* s.split(sep) for a separator of one character
RECURSIVE Split(_, _)
Split(s, sep) ==
  LET j == SkipNotIn(s, 1, {sep})
  IN IF j > Len(s) THEN <<s>>
     ELSE <<SubSeq(s, 1, j - 1)>> \o Split(From(s, j + 1), sep)

\* s.split('\n')
SplitLines(s) == Split(s, 10)

\* s.trim()
Trim(s) ==
  LET kept == {k \in 1..Len(s) : s[k] \notin WhiteSpace}
  IN IF kept = {} THEN <<>> ELSE SubSeq(s, Min(kept), Max(kept))

\* s.toLowerCase() on the identifier characters
ToLowerCase(s) ==
  [i \in 1..Len(s) |-> IF s[i] \in Upper THEN s[i] + 32 ELSE s[i]]

\* n.toString(radix) of a non-negative integer, radix 10 or 16
DigitChar(d) == IF d < 10 THEN 48 + d ELSE 97 + d - 10
RECURSIVE NumberToString(_, _)
NumberToString(n, radix) ==
  IF n < radix THEN <<DigitChar(n)>>
  ELSE Append(NumberToString(n \div radix, radix), DigitChar(n % radix))

\* s.padStart(width, fill)
RECURSIVE PadStart(_, _, _)
PadStart(s, width, fill) ==
  IF Len(s) >= width THEN s ELSE PadStart(<<fill>> \o s, width, fill)

\* ---------------------------------------------------------------- tables

\* luaProcessor.ts:183
prefixes ==
  << <<95, 48, 120>>,  \* _0x
     <<95>>,  \* _
     <<95, 95>>,  \* __
     <<95, 95, 95>>  \* ___
  >>

\* luaProcessor.ts:220-226
dummyPatterns ==
  << <<105, 102, 32, 116, 114, 117, 101, 32, 116, 104, 101, 110, 32, 101, 110, 100>>,  \* if true then end
     <<119, 104, 105, 108, 101, 32, 102, 97, 108, 115, 101, 32, 100, 111, 32, 101, 110, 100>>,  \* while false do end
     <<102, 111, 114, 32, 105, 32, 61, 32, 49, 44, 32, 48, 32, 100, 111, 32, 101, 110, 100>>,  \* for i = 1, 0 do end
     <<45, 45, 32, 100, 117, 109, 109, 121, 32, 99, 111, 109, 109, 101, 110, 116>>,  \* -- dummy comment
     <<108, 111, 99, 97, 108, 32, 95, 32, 61, 32, 110, 105, 108>>  \* local _ = nil
  >>

\* luaProcessor.ts:231-238
reserved ==
  << <<97, 110, 100>>,  \* and
     <<98, 114, 101, 97, 107>>,  \* break
     <<100, 111>>,  \* do
     <<101, 108, 115, 101>>,  \* else
     <<101, 108, 115, 101, 105, 102>>,  \* elseif
     <<101, 110, 100>>,  \* end
     <<102, 97, 108, 115, 101>>,  \* false
     <<102, 111, 114>>,  \* for
     <<102, 117, 110, 99, 116, 105, 111, 110>>,  \* function
     <<105, 102>>,  \* if
     <<105, 110>>,  \* in
     <<108, 111, 99, 97, 108>>,  \* local
     <<110, 105, 108>>,  \* nil
     <<110, 111, 116>>,  \* not
     <<111, 114>>,  \* or
     <<114, 101, 112, 101, 97, 116>>,  \* repeat
     <<114, 101, 116, 117, 114, 110>>,  \* return
     <<116, 104, 101, 110>>,  \* then
     <<116, 114, 117, 101>>,  \* true
     <<117, 110, 116, 105, 108>>,  \* until
     <<119, 104, 105, 108, 101>>,  \* while
     <<103, 97, 109, 101>>,  \* game
     <<119, 111, 114, 107, 115, 112, 97, 99, 101>>,  \* workspace
     <<115, 99, 114, 105, 112, 116>>,  \* script
     <<112, 114, 105, 110, 116>>,  \* print
     <<119, 97, 105, 116>>,  \* wait
     <<115, 112, 97, 119, 110>>,  \* spawn
     <<100, 101, 108, 97, 121>>,  \* delay
     <<80, 108, 97, 121, 101, 114, 115>>,  \* Players
     <<76, 111, 99, 97, 108, 80, 108, 97, 121, 101, 114>>,  \* LocalPlayer
     <<85, 115, 101, 114, 73, 110, 112, 117, 116, 83, 101, 114, 118, 105, 99, 101>>,  \* UserInputService
     <<82, 117, 110, 83, 101, 114, 118, 105, 99, 101>>,  \* RunService
     <<84, 119, 101, 101, 110, 83, 101, 114, 118, 105, 99, 101>>  \* TweenService
  >>

\* luaProcessor.ts:151-156
commonNames ==
  << <<112, 108, 97, 121, 101, 114>>,  \* player
     <<99, 104, 97, 114, 97, 99, 116, 101, 114>>,  \* character
     <<104, 117, 109, 97, 110, 111, 105, 100>>,  \* humanoid
     <<105, 110, 112, 117, 116>>,  \* input
     <<100, 97, 116, 97>>,  \* data
     <<118, 97, 108, 117, 101>>,  \* value
     <<114, 101, 115, 117, 108, 116>>,  \* result
     <<112, 111, 115, 105, 116, 105, 111, 110>>,  \* position
     <<114, 111, 116, 97, 116, 105, 111, 110>>,  \* rotation
     <<118, 101, 108, 111, 99, 105, 116, 121>>,  \* velocity
     <<102, 111, 114, 99, 101>>,  \* force
     <<112, 97, 114, 116>>,  \* part
     <<109, 111, 100, 101, 108>>,  \* model
     <<115, 99, 114, 105, 112, 116>>,  \* script
     <<115, 101, 114, 118, 105, 99, 101>>,  \* service
     <<101, 118, 101, 110, 116>>,  \* event
     <<99, 111, 110, 110, 101, 99, 116, 105, 111, 110>>,  \* connection
     <<103, 117, 105>>,  \* gui
     <<102, 114, 97, 109, 101>>,  \* frame
     <<98, 117, 116, 116, 111, 110>>,  \* button
     <<116, 101, 120, 116>>,  \* text
     <<104, 101, 97, 108, 116, 104>>,  \* health
     <<119, 97, 108, 107, 83, 112, 101, 101, 100>>,  \* walkSpeed
     <<106, 117, 109, 112, 80, 111, 119, 101, 114>>,  \* jumpPower
     <<99, 97, 109, 101, 114, 97>>,  \* camera
     <<109, 111, 117, 115, 101>>,  \* mouse
     <<107, 101, 121, 98, 111, 97, 114, 100>>  \* keyboard
  >>

\* the word after which a declaration is scanned
kwLocal == <<108, 111, 99, 97, 108>>  \* local
kwFunction == <<102, 117, 110, 99, 116, 105, 111, 110>>  \* function

\* -------------------------------------------------------------- settings

\* settings is optional: <<>> when the request has none, <<record>> otherwise
NoSettings == <<>>
Levels == {"light", "medium", "heavy"}
SomeSettings(vr, se, cf, lv) ==
  << [variableRenaming |-> vr, stringEncoding |-> se,
      controlFlowObfuscation |-> cf, obfuscationLevel |-> lv] >>

\* config with || in place of ??: a flag sent as false falls back to its default
configWithOr(settings) ==
  IF settings = NoSettings
  THEN [variableRenaming |-> TRUE, stringEncoding |-> TRUE,
        controlFlowObfuscation |-> FALSE, obfuscationLevel |-> "medium"]
  ELSE [settings[1] EXCEPT !.variableRenaming = TRUE, !.stringEncoding = TRUE]

\* settings?.x ?? default, lines 22-27
config(settings) ==
  IF settings = NoSettings
  THEN [variableRenaming |-> TRUE, stringEncoding |-> TRUE,
        controlFlowObfuscation |-> FALSE, obfuscationLevel |-> "medium"]
  ELSE settings[1]

\* ------------------------------------------------------- name generation

generateObfuscatedName(index) ==
  LET prefix == prefixes[(index % Len(prefixes)) + 1]
      suffix == PadStart(NumberToString(index + 1, 16), 4, 48)
  IN prefix \o suffix

isReservedWord(word) ==
  \E i \in 1..Len(reserved) : reserved[i] = ToLowerCase(word)

\* the characters escapeRegExp prefixes with a backslash: . * + ? ^ $ { } ( ) | [ ] \
RegExpSpecials == {46, 42, 43, 63, 94, 36, 123, 125, 40, 41, 124, 91, 93, 92}

RECURSIVE escapeRegExp(_)
escapeRegExp(string) ==
  IF Len(string) = 0 THEN <<>>
  ELSE (IF string[1] \in RegExpSpecials THEN <<92, string[1]>> ELSE <<string[1]>>)
         \o escapeRegExp(Tail(string))

\* the text matched by a pattern source made of plain and backslash-escaped
\* characters, as escapeRegExp produces them
RECURSIVE PatternLiteral(_)
PatternLiteral(source) ==
  IF Len(source) = 0 THEN <<>>
  ELSE IF source[1] = 92 /\ Len(source) > 1
       THEN <<source[2]>> \o PatternLiteral(From(source, 3))
       ELSE <<source[1]>> \o PatternLiteral(Tail(source))

\* the first position of S from i on, 0 when there is none: where the next
\* match of a global regular expression starts
FirstFrom(S, i) ==
  LET later == {k \in S : k >= i} IN IF later = {} THEN 0 ELSE Min(later)

\* the positions where \b<lit>\b matches
WordMatches(text, lit) ==
  {k \in 1..Len(text) : /\ Len(lit) > 0
                        /\ WordBoundary(text, k)
                        /\ StartsAt(text, k, lit)
                        /\ WordBoundary(text, k + Len(lit))}

\* text.replace(new RegExp(`\\b${source}\\b`, 'g'), replacement), from i on
RECURSIVE ReplaceWordFrom(_, _, _, _, _)
ReplaceWordFrom(text, i, hits, lit, replacement) ==
  LET k == FirstFrom(hits, i)
  IN IF k = 0 THEN From(text, i)
     ELSE SubSeq(text, i, k - 1) \o replacement
            \o ReplaceWordFrom(text, k + Len(lit), hits, lit, replacement)

\* ReplaceWord without the two \b: the name is replaced wherever it occurs
ReplaceAnywhere(text, source, replacement) ==
  LET lit == PatternLiteral(source)
      hits == {k \in 1..Len(text) : Len(lit) > 0 /\ StartsAt(text, k, lit)}
  IN ReplaceWordFrom(text, 1, hits, lit, replacement)

\* ReplaceWord without the g flag: only the first match is replaced
ReplaceWordFirst(text, source, replacement) ==
  LET lit == PatternLiteral(source)
      k == FirstFrom(WordMatches(text, lit), 1)
  IN IF k = 0 THEN text
     ELSE SubSeq(text, 1, k - 1) \o replacement \o From(text, k + Len(lit))

ReplaceWord(text, source, replacement) ==
  LET lit == PatternLiteral(source)
  IN ReplaceWordFrom(text, 1, WordMatches(text, lit), lit, replacement)

\* ------------------------------------------------- declarations (renaming)

\* a match of /\b<keyword>\s+([a-zA-Z_][a-zA-Z0-9_]*)/ starting at position i:
\* end is the position after the match (lastIndex + 1), 0 when there is none
DeclarationAt(code, i, keyword) ==
  LET j == i + Len(keyword)
      k == SkipIn(code, j, WhiteSpace)
      e == SkipIn(code, k + 1, WordChars)
  IN IF /\ WordBoundary(code, i)
        /\ StartsAt(code, i, keyword)
        /\ k > j
        /\ k <= Len(code)
        /\ code[k] \in IdentStart
     THEN [end |-> e, name |-> SubSeq(code, k, e - 1)]
     ELSE [end |-> 0, name |-> <<>>]

\* the names captured by the successive pattern.exec(code) calls, in order:
\* each search starts at lastIndex, the end of the match before it
RECURSIVE ExecAll(_, _, _)
ExecAll(code, i, keyword) ==
  LET k == FirstFrom({p \in 1..Len(code) : DeclarationAt(code, p, keyword).end > 0}, i)
      m == DeclarationAt(code, k, keyword)
  IN IF k = 0 THEN <<>> ELSE <<m.name>> \o ExecAll(code, m.end, keyword)

variablePattern(code) == ExecAll(code, 1, kwLocal)
functionPattern(code) == ExecAll(code, 1, kwFunction)

\* map.has(key) of an insertion-ordered Map, kept as a sequence of entries
MapHas(map, key) == \E i \in 1..Len(map) : map[i].key = key
MapKeys(map) == {map[i].key : i \in 1..Len(map)}
MapValues(map) == {map[i].value : i \in 1..Len(map)}

\* ExtractDeclarations counting every declaration, not every new name
RECURSIVE ExtractEveryDeclaration(_, _, _, _)
ExtractEveryDeclaration(names, i, acc, base) ==
  IF i > Len(names) THEN acc
  ELSE LET originalName == names[i]
       IN IF isReservedWord(originalName)
          THEN ExtractEveryDeclaration(names, i + 1, acc, base)
          ELSE ExtractEveryDeclaration(names, i + 1,
                 [map |-> IF MapHas(acc.map, originalName) THEN acc.map
                          ELSE Append(acc.map,
                                 [key |-> originalName,
                                  value |-> generateObfuscatedName(base + Len(acc.map))]),
                  renamed |-> acc.renamed + 1], base)

\* the body of the two while loops: a new name is mapped to the generated name
\* of index base + map.size and counted
RECURSIVE ExtractDeclarations(_, _, _, _)
ExtractDeclarations(names, i, acc, base) ==
  IF i > Len(names) THEN acc
  ELSE LET originalName == names[i]
       IN IF ~MapHas(acc.map, originalName) /\ ~isReservedWord(originalName)
          THEN ExtractDeclarations(names, i + 1,
                 [map |-> Append(acc.map,
                            [key |-> originalName,
                             value |-> generateObfuscatedName(base + Len(acc.map))]),
                  renamed |-> acc.renamed + 1], base)
          ELSE ExtractDeclarations(names, i + 1, acc, base)

\* the Map variables after the first loop, with the additions to variablesRenamed
variables(code) ==
  ExtractDeclarations(variablePattern(code), 1, [map |-> <<>>, renamed |-> 0], 0)

\* functions with the index starting again at 0
functionsFromZero(code) ==
  ExtractDeclarations(functionPattern(code), 1, [map |-> <<>>, renamed |-> 0], 0)

\* the Map functions after the second loop
functions(code) ==
  ExtractDeclarations(functionPattern(code), 1, [map |-> <<>>, renamed |-> 0],
                      Len(variables(code).map))

\* map.forEach: every entry replaced over the whole text, one after another
RECURSIVE ReplaceEach(_, _, _)
ReplaceEach(text, map, i) ==
  IF i > Len(map) THEN text
  ELSE ReplaceEach(ReplaceWord(text, escapeRegExp(map[i].key), map[i].value),
                   map, i + 1)

\* the text after the renaming block, lines 30-68
RenamePass(code) ==
  ReplaceEach(ReplaceEach(code, variables(code).map, 1), functions(code).map, 1)

\* ------------------------------------------------------- the random source

\* Math.random() is read as a stream of draws; a draw d stands for a value r
\* with floor(10 * r) = d, so that floor(r * 10) + 1 = d + 1,
\* floor(r * 5) = d \div 2, and r > 0.8 exactly for d >= 8 (but for r = 0.8)
Draws == 0..9

\* the draw after `used` earlier ones; the stream repeats when it runs out
Draw(rnd, used) == rnd[(used % Len(rnd)) + 1]

generateDummyCode(d) ==
  dummyPatterns[((d * Len(dummyPatterns)) \div 10) + 1]

\* --------------------------------------------------------- string encoding

\* Array.from(content): the text split at code points, a surrogate pair being
\* one element of two code units
RECURSIVE ArrayFrom(_)
ArrayFrom(content) ==
  IF Len(content) = 0 THEN <<>>
  ELSE IF /\ Len(content) > 1
          /\ content[1] \in HighSurrogates
          /\ content[2] \in LowSurrogates
       THEN <<SubSeq(content, 1, 2)>> \o ArrayFrom(From(content, 3))
       ELSE <<SubSeq(content, 1, 1)>> \o ArrayFrom(Tail(content))

\* Array.from(text).map(char => char.charCodeAt(0)), each code in decimal
CharCodes(text) ==
  LET chars == ArrayFrom(text)
  IN [i \in 1..Len(chars) |-> NumberToString(chars[i][1], 10)]

\* `string.char(${codes.join(', ')})`
strChar == <<115, 116, 114, 105, 110, 103, 46, 99, 104, 97, 114, 40>>  \* string.char(
StringChar(codes) == strChar \o Join(codes, <<44, 32>>) \o <<41>>

\* content.match(/.{1,2}/g) || []: runs of one or two characters other than
\* line terminators
RECURSIVE Chunks(_, _)
Chunks(content, i) ==
  IF i > Len(content) THEN <<>>
  ELSE IF content[i] \in LineTerminators THEN Chunks(content, i + 1)
  ELSE IF i + 1 <= Len(content) /\ content[i + 1] \notin LineTerminators
       THEN <<SubSeq(content, i, i + 1)>> \o Chunks(content, i + 2)
       ELSE <<SubSeq(content, i, i)>> \o Chunks(content, i + 1)

\* the heavy terms with the offset floor(r * 10), which can be 0
HeavyCodesFromZero(content, rnd, used) ==
  LET chars == ArrayFrom(content)
  IN [i \in 1..Len(chars) |->
        LET code == chars[i][1]
            offset == Draw(rnd, used + i - 1)
        IN <<40>> \o NumberToString(code + offset, 10) \o <<32, 45, 32>>
             \o NumberToString(offset, 10) \o <<41>>]

\* the heavy terms `(${code + offset} - ${offset})`, one draw per element
HeavyCodes(content, rnd, used) ==
  LET chars == ArrayFrom(content)
  IN [i \in 1..Len(chars) |->
        LET code == chars[i][1]
            offset == Draw(rnd, used + i - 1) + 1
        IN <<40>> \o NumberToString(code + offset, 10) \o <<32, 45, 32>>
             \o NumberToString(offset, 10) \o <<41>>]

\* encodeString perturbing the codes with random offsets at every level
encodeStringAlwaysHeavy(content, level, rnd, used) ==
  [text |-> StringChar(HeavyCodes(content, rnd, used)),
   used |-> used + Len(ArrayFrom(content))]

\* encodeString, with the draws it reads: text is the expression, used the
\* number of draws read so far
encodeString(content, level, rnd, used) ==
  CASE level = "light" ->
         [text |-> StringChar(CharCodes(content)), used |-> used]
    [] level = "medium" ->
         LET chunks == Chunks(content, 1)
             encodedChunks == [i \in 1..Len(chunks) |-> StringChar(CharCodes(chunks[i]))]
         IN [text |-> Join(encodedChunks, <<32, 46, 46, 32>>), used |-> used]
    [] level = "heavy" ->
         [text |-> StringChar(HeavyCodes(content, rnd, used)),
          used |-> used + Len(ArrayFrom(content))]
    [] OTHER ->
         [text |-> <<34>> \o content \o <<34>>, used |-> used]

\* the closing quote of a literal whose body is scanned from position j:
\* [^q\\]*(\\.[^q\\]*)* followed by q; 0 when the pattern does not match
RECURSIVE LiteralClose(_, _, _)
LiteralClose(text, j, quote) ==
  LET p == SkipNotIn(text, j, {quote, 92})
  IN IF p > Len(text) THEN 0
     ELSE IF text[p] = quote THEN p
     ELSE IF p + 1 <= Len(text) /\ text[p + 1] \notin LineTerminators
          THEN LiteralClose(text, p + 2, quote)
          ELSE 0

\* the positions where /q([^q\\]*(\\.[^q\\]*)*)q/ matches
LiteralStarts(text, quote) ==
  {k \in 1..Len(text) : text[k] = quote /\ LiteralClose(text, k + 1, quote) > 0}

\* text.replace(/q([^q\\]*(\\.[^q\\]*)*)q/g, callback) for the quote q, from
\* position i on: text is the output, encoded the additions to stringsEncoded,
\* used the number of draws read once the pass is over
RECURSIVE EncodeQuoted(_, _, _, _, _, _)
EncodeQuoted(text, i, quote, level, rnd, used) ==
  LET k == FirstFrom(LiteralStarts(text, quote), i)
      close == LiteralClose(text, k + 1, quote)
      content == SubSeq(text, k + 1, close - 1)
      e == IF Len(content) > 0 THEN encodeString(content, level, rnd, used)
           ELSE [text |-> SubSeq(text, k, close), used |-> used]
      rest == EncodeQuoted(text, close + 1, quote, level, rnd, e.used)
  IN IF k = 0 THEN [text |-> From(text, i), encoded |-> 0, used |-> used]
     ELSE [text |-> SubSeq(text, i, k - 1) \o e.text \o rest.text,
           encoded |-> rest.encoded + (IF Len(content) > 0 THEN 1 ELSE 0),
           used |-> rest.used]

\* the string encoding block, lines 71-89: single-quoted, then double-quoted
EncodePass(text, level, rnd) ==
  LET single == EncodeQuoted(text, 1, 39, level, rnd, 0)
      double == EncodeQuoted(single.text, 1, 34, level, rnd, single.used)
  IN [text |-> double.text,
      encoded |-> single.encoded + double.encoded,
      used |-> double.used]

\* ------------------------------------------------------ dead-code injection

\* the loop without the two conditions on the line
RECURSIVE InjectLinesAnywhere(_, _, _, _)
InjectLinesAnywhere(lines, i, rnd, used) ==
  IF i > Len(lines) THEN <<>>
  ELSE IF Draw(rnd, used) >= 8
  THEN <<lines[i], generateDummyCode(Draw(rnd, used + 1))>>
         \o InjectLinesAnywhere(lines, i + 1, rnd, used + 2)
  ELSE <<lines[i]>> \o InjectLinesAnywhere(lines, i + 1, rnd, used + 1)

\* the loop of lines 97-106 from line i on: the lines pushed to obfuscatedLines
RECURSIVE InjectLines(_, _, _, _)
InjectLines(lines, i, rnd, used) ==
  IF i > Len(lines) THEN <<>>
  ELSE LET line == lines[i]
           trimmed == Trim(line)
           insert == /\ Draw(rnd, used) >= 8
                     /\ Len(trimmed) > 0
                     /\ ~StartsAt(trimmed, 1, <<45, 45>>)
       IN IF insert
          THEN <<line, generateDummyCode(Draw(rnd, used + 1))>>
                 \o InjectLines(lines, i + 1, rnd, used + 2)
          ELSE <<line>> \o InjectLines(lines, i + 1, rnd, used + 1)

\* the control flow block, lines 92-109
InjectPass(text, rnd, used) ==
  Join(InjectLines(SplitLines(text), 1, rnd, used), <<10>>)

\* ------------------------------------------------------------ obfuscateCode

\* the three blocks in the order of the code, each given the text and the
\* counters the block before it has left
obfuscateCode(code, settings, rnd) ==
  LET cfg == config(settings)
      \* lines 92-115: the control flow block and the return statement
      AfterEncoding(encoded, variablesRenamed) ==
        [outputCode |-> IF cfg.controlFlowObfuscation
                        THEN InjectPass(encoded.text, rnd, encoded.used)
                        ELSE encoded.text,
         variablesRenamed |-> variablesRenamed,
         stringsEncoded |-> encoded.encoded]
      \* lines 71-89: the string encoding block
      AfterRenaming(renamed, variablesRenamed) ==
        AfterEncoding(IF cfg.stringEncoding
                      THEN EncodePass(renamed, cfg.obfuscationLevel, rnd)
                      ELSE [text |-> renamed, encoded |-> 0, used |-> 0],
                      variablesRenamed)
  \* lines 30-68: the renaming block
  IN IF cfg.variableRenaming
     THEN AfterRenaming(RenamePass(code),
                        variables(code).renamed + functions(code).renamed)
     ELSE AfterRenaming(code, 0)

\* ---------------------------------------------------------- deobfuscateCode

\* s.split(',')
SplitCommas(s) == Split(s, 44)

\* the value of a digit character in the given radix, -1 when it is none
DigitValue(c, radix) ==
  LET v == IF c \in Digits THEN c - 48
           ELSE IF c \in 97..122 THEN c - 97 + 10
           ELSE IF c \in 65..90 THEN c - 65 + 10
           ELSE -1
  IN IF v < radix THEN v ELSE -1

\* the number read from the leading digits of s from position i on
RECURSIVE ParseDigits(_, _, _, _)
ParseDigits(s, i, radix, acc) ==
  IF i <= Len(s) /\ DigitValue(s[i], radix) >= 0
  THEN ParseDigits(s, i + 1, radix, acc * radix + DigitValue(s[i], radix))
  ELSE acc

\* parseInt(s) without a radix: white space, a sign, an optional 0x or 0X, then
\* digits; nan when no digit follows
parseInt(s) ==
  LET a == SkipIn(s, 1, WhiteSpace)
      negative == a <= Len(s) /\ s[a] = 45
      b == IF a <= Len(s) /\ s[a] \in {43, 45} THEN a + 1 ELSE a
      hex == b + 1 <= Len(s) /\ s[b] = 48 /\ s[b + 1] \in {120, 88}
      c == IF hex THEN b + 2 ELSE b
      radix == IF hex THEN 16 ELSE 10
      none == ~(c <= Len(s) /\ DigitValue(s[c], radix) >= 0)
      n == ParseDigits(s, c, radix, 0)
  IN [nan |-> none, value |-> IF none THEN 0 ELSE IF negative THEN 0 - n ELSE n]

\* String.fromCharCode(n): ToUint16, NaN giving the code unit 0
fromCharCode(n) == IF n.nan THEN 0 ELSE n.value % 65536

\* the callback of lines 124-133 on the captured argument list; parseInt and
\* String.fromCharCode do not throw, so the catch branch is never taken
DecodeArgs(args) ==
  LET parts == SplitCommas(args)
      numbers == [i \in 1..Len(parts) |-> parseInt(Trim(parts[i]))]
      decoded == [i \in 1..Len(numbers) |-> fromCharCode(numbers[i])]
  IN <<34>> \o decoded \o <<34>>

\* a match of /string\.char\(([^)]+)\)/ at position i: the position of the
\* closing parenthesis, 0 when there is none
CallCloseAt(text, i) ==
  LET j == i + Len(strChar)
      p == SkipNotIn(text, j, {41})
  IN IF StartsAt(text, i, strChar) /\ p > j /\ p <= Len(text) THEN p ELSE 0

\* text.replace(/string\.char\(([^)]+)\)/g, callback), lines 124-133, from
\* position i on: text is the output, decoded the additions to stringsEncoded
RECURSIVE DecodeCalls(_, _)
DecodeCalls(text, i) ==
  LET k == FirstFrom({p \in 1..Len(text) : CallCloseAt(text, p) > 0}, i)
      close == CallCloseAt(text, k)
      rest == DecodeCalls(text, close + 1)
  IN IF k = 0 THEN [text |-> From(text, i), decoded |-> 0]
     ELSE [text |-> SubSeq(text, i, k - 1)
                      \o DecodeArgs(SubSeq(text, k + Len(strChar), close - 1))
                      \o rest.text,
           decoded |-> rest.decoded + 1]

\* a match of string\.char\((\d+)\) at position i: the digits and the position
\* after the closing parenthesis, 0 when there is none
SingleCallAt(text, i) ==
  LET j == i + Len(strChar)
      p == SkipIn(text, j, Digits)
  IN IF StartsAt(text, i, strChar) /\ p > j /\ p <= Len(text) /\ text[p] = 41
     THEN [end |-> p + 1, digits |-> SubSeq(text, j, p - 1)]
     ELSE [end |-> 0, digits |-> <<>>]

\* a match of /string\.char\((\d+)\)\s*\.\.\s*string\.char\((\d+)\)/ at
\* position i: the two digit runs and the position after the match, 0 when none
PairAt(text, i) ==
  LET first == SingleCallAt(text, i)
      dots == SkipIn(text, first.end, WhiteSpace)
      second == SingleCallAt(text, SkipIn(text, dots + 2, WhiteSpace))
  IN IF /\ first.end > 0
        /\ StartsAt(text, dots, <<46, 46>>)
        /\ second.end > 0
     THEN [end |-> second.end, code1 |-> first.digits, code2 |-> second.digits]
     ELSE [end |-> 0, code1 |-> <<>>, code2 |-> <<>>]

\* text.replace(<the pattern of PairAt>, callback), lines 136-145, from i on
RECURSIVE DecodePairs(_, _)
DecodePairs(text, i) ==
  LET k == FirstFrom({p \in 1..Len(text) : PairAt(text, p).end > 0}, i)
      m == PairAt(text, k)
      rest == DecodePairs(text, m.end)
  IN IF k = 0 THEN [text |-> From(text, i), decoded |-> 0]
     ELSE [text |-> SubSeq(text, i, k - 1)
                      \o <<34, fromCharCode(parseInt(m.code1)),
                           fromCharCode(parseInt(m.code2)), 34>>
                      \o rest.text,
           decoded |-> rest.decoded + 1]

\* code.match(/_0x[a-fA-F0-9]+/g) || []
hexPrefix == <<95, 48, 120>>  \* _0x
\* a match of /_0x[a-fA-F0-9]+/ at position i: the position after it, 0 when none
TokenEndAt(code, i) ==
  LET j == i + Len(hexPrefix)
      e == SkipIn(code, j, HexDigits)
  IN IF StartsAt(code, i, hexPrefix) /\ e > j THEN e ELSE 0

RECURSIVE obfuscatedVariables(_, _)
obfuscatedVariables(code, i) ==
  LET k == FirstFrom({p \in 1..Len(code) : TokenEndAt(code, p) > 0}, i)
      e == TokenEndAt(code, k)
  IN IF k = 0 THEN <<>>
     ELSE <<SubSeq(code, k, e - 1)>> \o obfuscatedVariables(code, e)

\* [...new Set(list)]: the first occurrence of every element, in order
RECURSIVE Unique(_, _)
Unique(list, seen) ==
  IF Len(list) = 0 THEN <<>>
  ELSE IF list[1] \in seen THEN Unique(Tail(list), seen)
  ELSE <<list[1]>> \o Unique(Tail(list), seen \cup {list[1]})

uniqueVariables(code) == Unique(obfuscatedVariables(code, 1), {})

\* uniqueVariables.forEach, lines 158-165: acc.text is deobfuscated
RECURSIVE RestoreNames(_, _, _)
RestoreNames(unique, index, acc) ==
  IF index >= Len(unique) THEN acc
  ELSE IF index < Len(commonNames)
       THEN RestoreNames(unique, index + 1,
              [text |-> ReplaceWord(acc.text, escapeRegExp(unique[index + 1]),
                                    commonNames[index + 1]),
               renamed |-> acc.renamed + 1])
       ELSE RestoreNames(unique, index + 1, acc)

\* text.replace(/<head>\s*end/g, ''), lines 168-170
kwEnd == <<101, 110, 100>>  \* end
DummyEndAt(text, i, head) ==
  LET k == SkipIn(text, i + Len(head), WhiteSpace)
  IN IF StartsAt(text, i, head) /\ StartsAt(text, k, kwEnd)
     THEN k + Len(kwEnd) ELSE 0

RECURSIVE RemoveDummy(_, _, _)
RemoveDummy(text, i, head) ==
  LET k == FirstFrom({p \in 1..Len(text) : DummyEndAt(text, p, head) > 0}, i)
  IN IF k = 0 THEN From(text, i)
     ELSE SubSeq(text, i, k - 1) \o RemoveDummy(text, DummyEndAt(text, k, head), head)

ifTrue == <<105, 102, 32, 116, 114, 117, 101, 32, 116, 104, 101, 110>>  \* if true then
whileFalse == <<119, 104, 105, 108, 101, 32, 102, 97, 108, 115, 101, 32, 100, 111>>  \* while false do
forLoop == <<102, 111, 114, 32, 105, 32, 61, 32, 49, 44, 32, 48, 32, 100, 111>>  \* for i = 1, 0 do

RemoveDummyCode(text) ==
  RemoveDummy(RemoveDummy(RemoveDummy(text, 1, ifTrue), 1, whileFalse), 1, forLoop)

\* a match of the pattern with lazy \s*?: it ends at the second line feed
\* that follows within white space
BlankRunLazyEndAt(text, i) ==
  LET feeds == {k \in (i + 1)..(SkipIn(text, i + 1, WhiteSpace) - 1) : text[k] = 10}
  IN IF text[i] = 10 /\ Cardinality(feeds) >= 2
     THEN Min(feeds \ {Min(feeds)}) ELSE 0

\* a match of /\n\s*\n\s*\n/ at position i: it starts at a line feed that is
\* followed, within white space, by two more, and ends at the last line feed
\* of that white space; the position of that one, 0 when there is no match
BlankRunEndAt(text, i) ==
  LET feeds == {k \in (i + 1)..(SkipIn(text, i + 1, WhiteSpace) - 1) : text[k] = 10}
  IN IF text[i] = 10 /\ Cardinality(feeds) >= 2 THEN Max(feeds) ELSE 0

\* text.replace(/\n\s*\n\s*\n/g, '\n\n'), line 173, from position i on
RECURSIVE CollapseBlankLines(_, _)
CollapseBlankLines(text, i) ==
  LET k == FirstFrom({p \in 1..Len(text) : BlankRunEndAt(text, p) > 0}, i)
  IN IF k = 0 THEN From(text, i)
     ELSE SubSeq(text, i, k - 1) \o <<10, 10>>
            \o CollapseBlankLines(text, BlankRunEndAt(text, k) + 1)

\* the steps in the order of the code, each given what the step before it
\* has left
deobfuscateCode(code) ==
  LET \* lines 168-179: the dummy removal, the blank lines, the return statement
      AfterNames(named, stringsEncoded) ==
        [outputCode |-> CollapseBlankLines(RemoveDummyCode(named.text), 1),
         variablesRenamed |-> named.renamed,
         stringsEncoded |-> stringsEncoded]
      \* lines 148-165: the names restored in the decoded text
      AfterPairs(pairs, stringsEncoded) ==
        AfterNames(RestoreNames(uniqueVariables(code), 0,
                                [text |-> pairs.text, renamed |-> 0]),
                   stringsEncoded + pairs.decoded)
      \* lines 136-145: the pairs of calls
      AfterCalls(calls) == AfterPairs(DecodePairs(calls.text, 1), calls.decoded)
  \* lines 124-133: the single calls
  IN AfterCalls(DecodeCalls(code, 1))

\* ---------------------------------------------------------- bounded inputs

RECURSIVE Concat(_)
Concat(parts) == IF Len(parts) = 0 THEN <<>> ELSE parts[1] \o Concat(Tail(parts))

\* every text made of 1..n fragments, and every text of 1..n characters
SeqsUpTo(S, n) == UNION {[1..k -> S] : k \in 1..n}
TextsOf(fragments, n) == {Concat(parts) : parts \in SeqsUpTo(fragments, n)}

\* the number of fragments of a source text
MaxFragments == 4
\* the number of characters of a literal's content
MaxContent == 3
\* the number of draws of a random stream
MaxDraws == 1

\* the fragments the sources to obfuscate are composed of
ObfuscateFragments ==
  { <<108, 111, 99, 97, 108, 32>>,                 \* 'local '
    <<102, 117, 110, 99, 116, 105, 111, 110, 32>>, \* 'function '
    <<112, 32>>,                                   \* 'p '
    <<80, 108, 97, 121, 101, 114, 115, 32>>,       \* 'Players '
    <<95, 48, 120, 48, 48, 48, 49, 32>>,           \* '_0x0001 '
    <<34, 112, 34, 10>> }                          \* '"p"' and a line feed

\* the settings the sources are obfuscated with
ObfuscateSettings ==
  {NoSettings}
    \cup {SomeSettings(FALSE, FALSE, FALSE, lv) : lv \in Levels}
    \cup {SomeSettings(TRUE, se, FALSE, "medium") : se \in BOOLEAN}

\* the fragments the sources to deobfuscate are composed of
DeobfuscateFragments ==
  { <<95, 48, 120, 48, 48, 48, 49, 32>>,                       \* '_0x0001 '
    <<95, 48, 48, 48, 50, 32>>,                                \* '_0002 '
    <<95, 95, 48, 48, 48, 51, 32>>,                            \* '__0003 '
    <<115, 116, 114, 105, 110, 103, 46, 99, 104, 97, 114, 40>>,  \* 'string.char('
    <<49, 48, 52, 44, 32, 49, 48, 53, 41>>,                    \* '104, 105)'
    <<120, 41>>,                                               \* 'x)'
    <<120>>,                                                   \* 'x'
    strChar \o <<49, 48, 52, 41, 32, 46, 46, 32>> \o strChar
            \o <<49, 48, 53, 41>>,      \* 'string.char(104) .. string.char(105)'
    <<40, 49, 48, 53, 32, 45, 32, 49, 41, 41>>,                \* '(105 - 1))'
    dummyPatterns[1] \o <<10>>,
    dummyPatterns[2] \o <<10>>,
    dummyPatterns[3] \o <<10>>,
    dummyPatterns[4] \o <<10>>,
    dummyPatterns[5] \o <<10>> }

\* the characters the contents to encode are composed of:
\* h, i, a line feed, a quote, and the two halves of U+1F600
ContentChars == {104, 105, 10, 34, 55357, 56832}

\* the number of characters of a content encoded at level heavy, and the
\* number of draws of its random stream
MaxHeavyContent == 2
MaxOffsets == 2

\* the characters of those contents: NUL, h, and the two halves of U+1F600
HeavyChars == {0, 104, 55357, 56832}

\* the number of fragments of a source of quotes, and the fragments: a single
\* quote, a double quote, p and a backslash
MaxQuoteFragments == 6
QuoteFragments == {<<39>>, <<34>>, <<112>>, <<92>>}

\* the settings those sources are obfuscated with: the string pass alone
QuoteSettings == {SomeSettings(FALSE, TRUE, FALSE, lv) : lv \in {"light", "medium"}}

\* the number of fragments of a source of identifiers, and the fragments
MaxWordFragments == 4
WordFragments ==
  { <<108, 111, 99, 97, 108, 32>>,                 \* 'local '
    <<102, 117, 110, 99, 116, 105, 111, 110, 32>>, \* 'function '
    <<112, 32>>,                                   \* 'p '
    <<112>>,                                       \* 'p'
    <<120>>,                                       \* 'x'
    <<46>> }                                       \* '.'

\* the number of fragments of a source of lines, and the fragments
MaxLineFragments == 5
LineFragments ==
  { <<10>>,               \* a line feed
    <<32>>,               \* a space
    <<97>>,               \* 'a'
    <<101, 108, 115, 101>>,  \* 'else'
    dummyPatterns[1] }    \* 'if true then end'

\* the number of fragments of a source of declarations, and the fragments
MaxDeclarations == 4
DeclarationFragments ==
  { kwLocal \o <<32, 97, 32>> \o kwLocal \o <<32, 98, 32>>,  \* 'local a local b '
    kwFunction \o <<32, 97, 32>>,                            \* 'function a '
    kwFunction \o <<32, 98, 32>>,                            \* 'function b '
    kwFunction \o <<32, 99, 32>> }                           \* 'function c '

\* the number of fragments of a source run with several random streams, the
\* fragments, the number of draws of a stream and the draws: r < 0.1,
\* 0.5 <= r < 0.6 and r >= 0.9
MaxRandomFragments == 3
RandomFragments == {<<34, 104, 34>>, <<10>>}   \* '"h"' and a line feed
MaxRandomDraws == 2
RandomDraws == {0, 5, 9}
RandomSettings ==
  {SomeSettings(FALSE, se, cf, lv) : se \in BOOLEAN, cf \in BOOLEAN, lv \in Levels}

\* ------------------------------------------------------------ state machine

VARIABLES
  request,   \* the validated ProcessRequest: inputCode, mode, settings
  rnd,       \* the draws Math.random() returns, in order
  pc,        \* "ready" before processLuaCode runs, "done" once it has returned
  result,    \* the ProcessResult returned
  locals,    \* the Maps variables and functions of the obfuscateCode call
  enc,       \* one literal through encodeString and the decode step
  tasks,     \* the processLuaCode calls in flight: request, draws, stage, result
  frames,    \* the local variables of the calls: obfuscated and the two counters
  http,      \* the POST /api/process exchange: stage, body, status, response
  processedScripts,  \* the rows of the table processed_scripts
  scriptLikes,       \* the rows of the table script_likes, oldest first
  sharedScripts,     \* the rows of the table shared_scripts, by id: likes
  ops        \* the likeScript and unlikeScript calls: arguments, stage, returned value

core == <<request, rnd, pc, result, locals, enc>>
web == <<http, processedScripts>>
community == <<scriptLikes, sharedScripts, ops>>
server == <<tasks, frames, http, processedScripts, scriptLikes, sharedScripts, ops>>
vars == <<request, rnd, pc, result, locals, enc, tasks, frames,
          http, processedScripts, scriptLikes, sharedScripts, ops>>

\* the settings of a request body as JSON: settings is undefined, an object or
\* another value; a member of the object is <<>> when absent and <<v>> otherwise,
\* v being the JSON text of its value
RawSettings(type, vr, se, cf, lv) ==
  [type |-> type, variableRenaming |-> vr, stringEncoding |-> se,
   controlFlowObfuscation |-> cf, obfuscationLevel |-> lv]
RawUndefined == RawSettings("undefined", <<>>, <<>>, <<>>, <<>>)

NoResponse == [id |-> 0, outputCode |-> <<>>, inputLines |-> 0, outputLines |-> 0,
               variablesRenamed |-> 0, stringsEncoded |-> 0, processingTime |-> 0]
NoHttp ==
  [stage |-> "none",
   body |-> [inputCode |-> <<>>, mode |-> "none", settings |-> RawUndefined],
   status |-> 0, response |-> NoResponse]

\* no request to POST /api/process and an empty table
IdleWeb ==
  /\ http = NoHttp
  /\ processedScripts = <<>>

\* no like or unlike call and empty tables
IdleCommunity ==
  /\ scriptLikes = <<>>
  /\ sharedScripts = <<>>
  /\ ops = <<>>

\* no call in flight
IdleServer ==
  /\ tasks = <<>>
  /\ frames = <<>>
  /\ IdleWeb
  /\ IdleCommunity

NoRequest == [inputCode |-> <<>>, mode |-> "none", settings |-> NoSettings]
NoResult == [outputCode |-> <<>>, variablesRenamed |-> 0, stringsEncoded |-> 0]
NoLocals == [variables |-> <<>>, functions |-> <<>>]
NoEnc == [stage |-> "none", content |-> <<>>, level |-> "light",
          expression |-> <<>>, decoded |-> [text |-> <<>>, decoded |-> 0]]

Requests(texts, mode, settings) ==
  [inputCode : texts, mode : {mode}, settings : settings]

InitObfuscate ==
  /\ IdleServer
  /\ request \in Requests(TextsOf(ObfuscateFragments, MaxFragments),
                          "obfuscate", ObfuscateSettings)
  /\ rnd = <<0>>
  /\ pc = "ready"
  /\ result = NoResult
  /\ locals = NoLocals
  /\ enc = NoEnc

InitDeobfuscate ==
  /\ IdleServer
  /\ request \in Requests(TextsOf(DeobfuscateFragments, MaxFragments - 1),
                          "deobfuscate", {NoSettings})
  /\ rnd = <<0>>
  /\ pc = "ready"
  /\ result = NoResult
  /\ locals = NoLocals
  /\ enc = NoEnc

InitEncode ==
  /\ IdleServer
  /\ request = NoRequest
  /\ pc = "idle"
  /\ result = NoResult
  /\ locals = NoLocals
  /\ \E content \in SeqsUpTo(ContentChars, MaxContent), level \in Levels :
       enc = [NoEnc EXCEPT !.stage = "literal", !.content = content,
                           !.level = level]
  /\ IF enc.level = "heavy" THEN rnd \in [1..MaxDraws -> Draws] ELSE rnd = <<0>>

\* processLuaCode, the obfuscate branch (lines 10-11)
Obfuscate ==
  /\ pc = "ready"
  /\ request.mode = "obfuscate"
  /\ result' = obfuscateCode(request.inputCode, request.settings, rnd)
  /\ locals' = IF config(request.settings).variableRenaming
               THEN [variables |-> variables(request.inputCode).map,
                     functions |-> functions(request.inputCode).map]
               ELSE NoLocals
  /\ pc' = "done"
  /\ UNCHANGED <<request, rnd, enc>>
  /\ UNCHANGED server

\* processLuaCode, the deobfuscate branch (lines 12-13)
Deobfuscate ==
  /\ pc = "ready"
  /\ request.mode # "obfuscate"
  /\ result' = deobfuscateCode(request.inputCode)
  /\ pc' = "done"
  /\ UNCHANGED <<request, rnd, locals, enc>>
  /\ UNCHANGED server

\* encodeString on the content of one literal (lines 189-217)
Encode ==
  /\ enc.stage = "literal"
  /\ enc' = [enc EXCEPT !.stage = "encoded",
                        !.expression = encodeString(enc.content, enc.level, rnd, 0).text]
  /\ UNCHANGED <<request, rnd, pc, result, locals>>
  /\ UNCHANGED server

\* the decode step of deobfuscateCode on the expression (lines 124-133)
Decode ==
  /\ enc.stage = "encoded"
  /\ enc' = [enc EXCEPT !.stage = "decoded",
                        !.decoded = DecodeCalls(enc.expression, 1)]
  /\ UNCHANGED <<request, rnd, pc, result, locals>>
  /\ UNCHANGED server

\* the output of deobfuscateCode submitted to deobfuscateCode once more; an
\* empty inputCode does not pass the validation
DeobfuscateAgain ==
  /\ pc = "done"
  /\ request.mode = "deobfuscate"
  /\ result.outputCode # <<>>
  /\ result' = deobfuscateCode(result.outputCode)
  /\ pc' = "again"
  /\ UNCHANGED <<request, rnd, locals, enc>>
  /\ UNCHANGED server

NextObfuscate == Obfuscate
NextDeobfuscate == Deobfuscate
NextEncode == Encode \/ Decode

SpecObfuscate == InitObfuscate /\ [][NextObfuscate]_vars
SpecDeobfuscate == InitDeobfuscate /\ [][NextDeobfuscate]_vars
SpecEncode == InitEncode /\ [][NextEncode]_vars

\* encodeString at level heavy, every character with a draw of its own
InitHeavy ==
  /\ IdleServer
  /\ request = NoRequest
  /\ pc = "idle"
  /\ result = NoResult
  /\ locals = NoLocals
  /\ \E content \in SeqsUpTo(HeavyChars, MaxHeavyContent) :
       enc = [NoEnc EXCEPT !.stage = "literal", !.content = content,
                           !.level = "heavy"]
  /\ rnd \in [1..MaxOffsets -> Draws]

SpecHeavy == InitHeavy /\ [][NextEncode]_vars

\* obfuscateCode on sources of quotes, with the string pass alone
InitLiterals ==
  /\ IdleServer
  /\ request \in Requests(TextsOf(QuoteFragments, MaxQuoteFragments),
                          "obfuscate", QuoteSettings)
  /\ rnd = <<0>>
  /\ pc = "ready"
  /\ result = NoResult
  /\ locals = NoLocals
  /\ enc = NoEnc

SpecLiterals == InitLiterals /\ [][NextObfuscate]_vars

\* obfuscateCode on sources of identifiers, with the renaming pass alone
InitWords ==
  /\ IdleServer
  /\ request \in Requests(TextsOf(WordFragments, MaxWordFragments), "obfuscate",
                          {SomeSettings(TRUE, FALSE, FALSE, "medium")})
  /\ rnd = <<0>>
  /\ pc = "ready"
  /\ result = NoResult
  /\ locals = NoLocals
  /\ enc = NoEnc

SpecWords == InitWords /\ [][NextObfuscate]_vars

\* deobfuscateCode on sources of lines, and once more on what it returns
InitLines ==
  /\ IdleServer
  /\ request \in Requests(TextsOf(LineFragments, MaxLineFragments),
                          "deobfuscate", {NoSettings})
  /\ rnd = <<0>>
  /\ pc = "ready"
  /\ result = NoResult
  /\ locals = NoLocals
  /\ enc = NoEnc

NextLines == Deobfuscate \/ DeobfuscateAgain
SpecLines == InitLines /\ [][NextLines]_vars

\* obfuscateCode on sources of declarations, with the renaming pass alone
InitNames ==
  /\ IdleServer
  /\ request \in Requests(TextsOf(DeclarationFragments, MaxDeclarations),
                          "obfuscate", {SomeSettings(TRUE, FALSE, FALSE, "medium")})
  /\ rnd = <<0>>
  /\ pc = "ready"
  /\ result = NoResult
  /\ locals = NoLocals
  /\ enc = NoEnc

SpecNames == InitNames /\ [][NextObfuscate]_vars

\* processLuaCode in either mode with every random stream
InitRandom ==
  /\ IdleServer
  /\ \/ request \in Requests(TextsOf(RandomFragments, MaxRandomFragments),
                             "obfuscate", RandomSettings)
     \/ request \in Requests(TextsOf(RandomFragments, MaxRandomFragments),
                             "deobfuscate", {NoSettings})
  /\ rnd \in [1..MaxRandomDraws -> RandomDraws]
  /\ pc = "ready"
  /\ result = NoResult
  /\ locals = NoLocals
  /\ enc = NoEnc

NextRandom == Obfuscate \/ Deobfuscate
SpecRandom == InitRandom /\ [][NextRandom]_vars

\* --------------------------------------------- inputs of the injection loop

\* the number of fragments of a text to inject into
MaxInjectFragments == 3
\* the number of draws of its random stream
MaxInjectDraws == 2

\* 'a', a blank line, a line of one space, '--c', ' --c' (each with its line
\* feed) and '"h"'
InjectFragments ==
  { <<97, 10>>, <<10>>, <<32, 10>>, <<45, 45, 99, 10>>, <<32, 45, 45, 99, 10>>, <<34, 104, 34>> }

\* the injection alone and after the string pass; Math.random() just below
\* and just above 0.8
InitInject ==
  /\ IdleServer
  /\ request \in Requests(TextsOf(InjectFragments, MaxInjectFragments),
                          "obfuscate",
                          { SomeSettings(FALSE, FALSE, TRUE, "medium"),
                            SomeSettings(FALSE, TRUE, TRUE, "light") })
  /\ rnd \in [1..MaxInjectDraws -> {7, 8}]
  /\ pc = "ready"
  /\ result = NoResult
  /\ locals = NoLocals
  /\ enc = NoEnc

SpecInject == InitInject /\ [][NextObfuscate]_vars

\* ---------------------------------------------------------- calls in flight

\* the number of calls in flight at once
MaxTasks == 2

\* the requests of those calls, each with the draws Math.random() returns to it
TaskRequests ==
  { [request |-> [inputCode |-> <<108, 111, 99, 97, 108, 32, 112, 32, 34, 112, 34, 10, 112, 32>>,   \* 'local p "p"' + LF + 'p '
                  mode |-> "obfuscate", settings |-> NoSettings],
     draws |-> <<0>>],
    [request |-> [inputCode |-> <<108, 111, 99, 97, 108, 32, 112, 32, 34, 112, 34, 10, 112, 32>>,
                  mode |-> "obfuscate",
                  settings |-> SomeSettings(TRUE, TRUE, TRUE, "heavy")],
     draws |-> <<9, 0>>],
    [request |-> [inputCode |-> <<102, 117, 110, 99, 116, 105, 111, 110, 32, 113, 32, 113, 32>>,   \* 'function q q '
                  mode |-> "obfuscate",
                  settings |-> SomeSettings(TRUE, FALSE, TRUE, "light")],
     draws |-> <<9, 5>>],
    [request |-> [inputCode |-> <<95, 48, 120, 48, 48, 48, 49, 32, 115, 116, 114, 105, 110, 103, 46, 99, 104, 97, 114, 40, 49, 48, 52, 41, 10, 10, 10, 95, 48, 120, 48, 48, 48, 49, 32>>,   \* '_0x0001 string.char(104)' + 3 LF + '_0x0001 '
                  mode |-> "deobfuscate", settings |-> NoSettings],
     draws |-> <<0>>],
    [request |-> [inputCode |-> <<105, 102, 32, 116, 114, 117, 101, 32, 116, 104, 101, 110, 32, 101, 110, 100, 32, 95, 48, 120, 48, 48, 48, 50, 32>>,   \* 'if true then end _0x0002 '
                  mode |-> "deobfuscate", settings |-> NoSettings],
     draws |-> <<0>>] }

\* the local variables of a call before its first statement
NoFrame == [obfuscated |-> <<>>, variablesRenamed |-> 0, stringsEncoded |-> 0,
            used |-> 0]

\* one activation frame shared by all the calls
FrameShared(h) == 1

\* the activation frame that holds the local variables of a call: its own
Frame(h) == h

InitTasks ==
  /\ request = NoRequest
  /\ rnd = <<0>>
  /\ pc = "idle"
  /\ result = NoResult
  /\ locals = NoLocals
  /\ enc = NoEnc
  /\ tasks \in [1..MaxTasks ->
                  {[request |-> r.request, draws |-> r.draws, stage |-> "called",
                    result |-> NoResult] : r \in TaskRequests}]
  /\ frames = [h \in 1..MaxTasks |-> NoFrame]
  /\ IdleWeb
  /\ IdleCommunity

\* a step of the call h from one stage to the next that leaves its frame as f
Step(h, from, to, f) ==
  /\ tasks[h].stage = from
  /\ tasks' = [tasks EXCEPT ![h].stage = to]
  /\ frames' = [frames EXCEPT ![Frame(h)] = f]
  /\ UNCHANGED <<core, web, community>>

\* let obfuscated = code; let variablesRenamed = 0; let stringsEncoded = 0
\* (lines 18-20 and 119-121)
Enter(h) ==
  Step(h, "called", "entered",
       [NoFrame EXCEPT !.obfuscated = tasks[h].request.inputCode])

\* the renaming block of the call h (lines 30-68)
Rename(h) ==
  LET f == frames[Frame(h)]
      code == tasks[h].request.inputCode
  IN /\ tasks[h].request.mode = "obfuscate"
     /\ Step(h, "entered", "renamed",
             IF config(tasks[h].request.settings).variableRenaming
             THEN [f EXCEPT
                     !.obfuscated = ReplaceEach(ReplaceEach(f.obfuscated,
                                                            variables(code).map, 1),
                                                functions(code).map, 1),
                     !.variablesRenamed = f.variablesRenamed
                                            + variables(code).renamed
                                            + functions(code).renamed]
             ELSE f)

\* the string encoding block of the call h (lines 71-89)
EncodeStrings(h) ==
  LET f == frames[Frame(h)]
      cfg == config(tasks[h].request.settings)
      e == EncodePass(f.obfuscated, cfg.obfuscationLevel, tasks[h].draws)
  IN Step(h, "renamed", "encoded",
          IF cfg.stringEncoding
          THEN [f EXCEPT !.obfuscated = e.text,
                         !.stringsEncoded = f.stringsEncoded + e.encoded,
                         !.used = e.used]
          ELSE f)

\* the control flow block of the call h (lines 92-109)
Inject(h) ==
  LET f == frames[Frame(h)]
  IN Step(h, "encoded", "finished",
          IF config(tasks[h].request.settings).controlFlowObfuscation
          THEN [f EXCEPT !.obfuscated = InjectPass(f.obfuscated, tasks[h].draws, f.used)]
          ELSE f)

\* the two decoding replaces of the call h (lines 124-145)
DecodeStrings(h) ==
  LET f == frames[Frame(h)]
      single == DecodeCalls(f.obfuscated, 1)
      pairs == DecodePairs(single.text, 1)
  IN /\ tasks[h].request.mode # "obfuscate"
     /\ Step(h, "entered", "decoded",
             [f EXCEPT !.obfuscated = pairs.text,
                       !.stringsEncoded = f.stringsEncoded + single.decoded
                                            + pairs.decoded])

\* the name restoring of the call h (lines 148-165)
Restore(h) ==
  LET f == frames[Frame(h)]
      named == RestoreNames(uniqueVariables(tasks[h].request.inputCode), 0,
                            [text |-> f.obfuscated, renamed |-> f.variablesRenamed])
  IN Step(h, "decoded", "restored",
          [f EXCEPT !.obfuscated = named.text, !.variablesRenamed = named.renamed])

\* the dummy removal and the blank line replace of the call h (lines 168-173)
Clean(h) ==
  LET f == frames[Frame(h)]
  IN Step(h, "restored", "finished",
          [f EXCEPT !.obfuscated = CollapseBlankLines(RemoveDummyCode(f.obfuscated), 1)])

\* the return statement of the call h (lines 111-115 and 175-179)
Return(h) ==
  LET f == frames[Frame(h)]
  IN /\ tasks[h].stage = "finished"
     /\ tasks' = [tasks EXCEPT
                    ![h].stage = "returned",
                    ![h].result = [outputCode |-> f.obfuscated,
                                   variablesRenamed |-> f.variablesRenamed,
                                   stringsEncoded |-> f.stringsEncoded]]
     /\ UNCHANGED <<frames, core, web, community>>

NextTasks ==
  \E h \in 1..MaxTasks :
    \/ Enter(h) \/ Rename(h) \/ EncodeStrings(h) \/ Inject(h)
    \/ DecodeStrings(h) \/ Restore(h) \/ Clean(h) \/ Return(h)

SpecTasks == InitTasks /\ [][NextTasks]_vars

\* ------------------------------------------------------ POST /api/process

\* the number of fragments of the inputCode of a request body
MaxProcessFragments == 2

\* 'local p ', '"h"', 'string.char(104)', '_0x0001 '
ProcessFragments ==
  { <<108, 111, 99, 97, 108, 32, 112, 32>>, <<34, 104, 34>>,
    <<115, 116, 114, 105, 110, 103, 46, 99, 104, 97, 114, 40, 49, 48, 52, 41>>,
    <<95, 48, 120, 48, 48, 48, 49, 32>> }

\* settings absent, {}, complete, partial, with a level outside the enum, with a
\* flag that is no boolean, and settings that is no object
ProcessSettings ==
  { RawUndefined,
    RawSettings("object", <<>>, <<>>, <<>>, <<>>),
    RawSettings("object", <<"false">>, <<"true">>, <<"true">>, <<"heavy">>),
    RawSettings("object", <<>>, <<"false">>, <<>>, <<>>),
    RawSettings("object", <<>>, <<>>, <<>>, <<"extreme">>),
    RawSettings("object", <<"\"yes\"">>, <<>>, <<>>, <<>>),
    RawSettings("string", <<>>, <<>>, <<>>, <<>>) }

\* the bodies sent, the one with the empty inputCode included; "minify" stands
\* for every mode outside the enum
Bodies ==
  [inputCode : {<<>>} \cup TextsOf(ProcessFragments, MaxProcessFragments),
   mode : {"obfuscate", "deobfuscate", "minify"}, settings : ProcessSettings]

\* z.object({...}).optional() on settings, with z.boolean().default(d) and
\* z.enum(["light", "medium", "heavy"]).default("medium") on its members
ParseSettings(raw) ==
  LET ParseBoolean(member, d) ==
        IF member = <<>> THEN [ok |-> TRUE, value |-> d]
        ELSE IF member[1] = "true" THEN [ok |-> TRUE, value |-> TRUE]
        ELSE IF member[1] = "false" THEN [ok |-> TRUE, value |-> FALSE]
        ELSE [ok |-> FALSE, value |-> d]
      ParseLevel(member) ==
        IF member = <<>> THEN [ok |-> TRUE, value |-> "medium"]
        ELSE IF member[1] \in Levels THEN [ok |-> TRUE, value |-> member[1]]
        ELSE [ok |-> FALSE, value |-> "medium"]
      vr == ParseBoolean(raw.variableRenaming, TRUE)
      se == ParseBoolean(raw.stringEncoding, TRUE)
      cf == ParseBoolean(raw.controlFlowObfuscation, FALSE)
      lv == ParseLevel(raw.obfuscationLevel)
  IN IF raw.type = "undefined" THEN [ok |-> TRUE, value |-> NoSettings]
     ELSE IF raw.type = "object"
     THEN [ok |-> vr.ok /\ se.ok /\ cf.ok /\ lv.ok,
           value |-> SomeSettings(vr.value, se.value, cf.value, lv.value)]
     ELSE [ok |-> FALSE, value |-> NoSettings]

\* a parse that never throws: what is malformed is passed on or dropped
parseLenient(body) ==
  [ok |-> TRUE,
   data |-> [inputCode |-> body.inputCode, mode |-> body.mode,
             settings |-> ParseSettings(body.settings).value]]

\* processRequestSchema.parse(req.body): ok is FALSE when it throws
parse(body) ==
  LET settings == ParseSettings(body.settings)
  IN [ok |-> /\ Len(body.inputCode) >= 1
             /\ body.mode \in {"obfuscate", "deobfuscate"}
             /\ settings.ok,
      data |-> [inputCode |-> body.inputCode, mode |-> body.mode,
                settings |-> settings.value]]

\* validatedData.settings ? JSON.stringify(validatedData.settings) : null,
\* null being <<>> and a text t being <<t>>
StoredSettings(settings) ==
  LET JSONBoolean(b) == IF b THEN <<116, 114, 117, 101>> ELSE <<102, 97, 108, 115, 101>>
      JSONLevel(lv) ==
      <<34>> \o (CASE lv = "light" -> <<108, 105, 103, 104, 116>>
                   [] lv = "medium" -> <<109, 101, 100, 105, 117, 109>>
                   [] OTHER -> <<104, 101, 97, 118, 121>>) \o <<34>>
  IN
  IF settings = NoSettings THEN <<>>
  ELSE << <<123, 34, 118, 97, 114, 105, 97, 98, 108, 101, 82, 101, 110, 97, 109, 105, 110, 103, 34, 58>> \o JSONBoolean(settings[1].variableRenaming)
          \o <<44, 34, 115, 116, 114, 105, 110, 103, 69, 110, 99, 111, 100, 105, 110, 103, 34, 58>> \o JSONBoolean(settings[1].stringEncoding)
          \o <<44, 34, 99, 111, 110, 116, 114, 111, 108, 70, 108, 111, 119, 79, 98, 102, 117, 115, 99, 97, 116, 105, 111, 110, 34, 58>>
          \o JSONBoolean(settings[1].controlFlowObfuscation)
          \o <<44, 34, 111, 98, 102, 117, 115, 99, 97, 116, 105, 111, 110, 76, 101, 118, 101, 108, 34, 58>>
          \o JSONLevel(settings[1].obfuscationLevel) \o <<125>> >>

InitProcess ==
  /\ request = NoRequest
  /\ rnd = <<9>>
  /\ pc = "idle"
  /\ result = NoResult
  /\ locals = NoLocals
  /\ enc = NoEnc
  /\ tasks = <<>>
  /\ frames = <<>>
  /\ http \in [stage : {"received"}, body : Bodies, status : {0},
               response : {NoResponse}]
  /\ processedScripts = <<>>
  /\ IdleCommunity

\* line 11, parse returns: the handler goes on to call processLuaCode
Validate ==
  /\ http.stage = "received"
  /\ parse(http.body).ok
  /\ request' = parse(http.body).data
  /\ pc' = "ready"
  /\ http' = [http EXCEPT !.stage = "validated"]
  /\ UNCHANGED <<rnd, result, locals, enc, tasks, frames, processedScripts, community>>

\* line 11, parse throws: the catch block answers 400 (lines 44-49)
Reject ==
  /\ http.stage = "received"
  /\ ~parse(http.body).ok
  /\ http' = [http EXCEPT !.stage = "responded", !.status = 400]
  /\ UNCHANGED <<core, tasks, frames, processedScripts, community>>

\* lines 19-43 once processLuaCode has returned: the record is inserted and
\* the response sent
Store ==
  /\ http.stage = "validated"
  /\ pc = "done"
  /\ \E processingTime \in {0, 1} :   \* endTime - startTime
       LET inputLines == Len(SplitLines(request.inputCode))
           outputLines == Len(SplitLines(result.outputCode))
           id == Len(processedScripts) + 1
       IN /\ processedScripts' =
               Append(processedScripts,
                      [id |-> id,
                       inputCode |-> request.inputCode,
                       outputCode |-> result.outputCode,
                       mode |-> request.mode,
                       settings |-> StoredSettings(request.settings),
                       inputLines |-> inputLines,
                       outputLines |-> outputLines,
                       variablesRenamed |-> result.variablesRenamed,
                       stringsEncoded |-> result.stringsEncoded,
                       processingTime |-> processingTime])
          /\ http' = [http EXCEPT
                        !.stage = "responded",
                        !.status = 200,
                        !.response = [id |-> id,
                                      outputCode |-> result.outputCode,
                                      inputLines |-> inputLines,
                                      outputLines |-> outputLines,
                                      variablesRenamed |-> result.variablesRenamed,
                                      stringsEncoded |-> result.stringsEncoded,
                                      processingTime |-> processingTime]]
  /\ UNCHANGED <<core, tasks, frames, community>>

\* line 23, createProcessedScript rejects: the catch block answers 400
StoreFails ==
  /\ http.stage = "validated"
  /\ pc = "done"
  /\ http' = [http EXCEPT !.stage = "responded", !.status = 400]
  /\ UNCHANGED <<core, tasks, frames, processedScripts, community>>

NextProcess ==
  \/ Validate \/ Reject \/ Obfuscate \/ Deobfuscate \/ Store \/ StoreFails

SpecProcess == InitProcess /\ [][NextProcess]_vars

\* ------------------------------------------------------- likes and unlikes

\* the number of likeScript and unlikeScript calls
MaxOps == 3

\* the ids of the rows of the table users; the route sends 'anonymous', which
\* is no row of it, when the body has no userId
Users == {"u1", "u2"}

\* one shared script, id 1, with the default likes and no like row
InitLikes ==
  /\ request = NoRequest
  /\ rnd = <<0>>
  /\ pc = "idle"
  /\ result = NoResult
  /\ locals = NoLocals
  /\ enc = NoEnc
  /\ tasks = <<>>
  /\ frames = <<>>
  /\ IdleWeb
  /\ scriptLikes = <<>>
  /\ sharedScripts = <<[likes |-> 0]>>
  /\ ops = <<>>

\* routes.ts lines 142-150: storage.likeScript or storage.unlikeScript is called
\* with the id of the script and the userId of the body; ready tells whether
\* the client sends the request now
Call(ready) ==
  /\ ready
  /\ Len(ops) < MaxOps
  /\ \E action \in {"like", "unlike"}, userId \in Users \cup {"anonymous"} :
       ops' = Append(ops, [action |-> action, scriptId |-> 1, userId |-> userId,
                           stage |-> "called", rowCount |-> 0, success |-> FALSE])
  /\ UNCHANGED <<core, tasks, frames, web, scriptLikes, sharedScripts>>

\* line 259, the insert succeeds: both foreign keys name a row, and no
\* constraint of script_likes looks at the rows already there
LikeInsert(i) ==
  /\ ops[i].action = "like"
  /\ ops[i].stage = "called"
  /\ ops[i].scriptId \in DOMAIN sharedScripts
  /\ ops[i].userId \in Users
  /\ scriptLikes' = Append(scriptLikes, [scriptId |-> ops[i].scriptId,
                                         userId |-> ops[i].userId])
  /\ ops' = [ops EXCEPT ![i].stage = "inserted"]
  /\ UNCHANGED <<core, tasks, frames, web, sharedScripts>>

\* line 259, the insert violates a foreign key: the catch block returns false
LikeInsertFails(i) ==
  /\ ops[i].action = "like"
  /\ ops[i].stage = "called"
  /\ ~(ops[i].scriptId \in DOMAIN sharedScripts /\ ops[i].userId \in Users)
  /\ ops' = [ops EXCEPT ![i].stage = "returned", ![i].success = FALSE]
  /\ UNCHANGED <<core, tasks, frames, web, scriptLikes, sharedScripts>>

\* lines 260-264: likes = likes + 1 on the script, then return true
LikeUpdate(i) ==
  /\ ops[i].action = "like"
  /\ ops[i].stage = "inserted"
  /\ sharedScripts' = [sharedScripts EXCEPT ![ops[i].scriptId].likes = @ + 1]
  /\ ops' = [ops EXCEPT ![i].stage = "returned", ![i].success = TRUE]
  /\ UNCHANGED <<core, tasks, frames, web, scriptLikes>>

\* lines 272-276, the delete removes rows: every row of the script and the user
UnlikeDelete(i) ==
  LET mine(row) == row.scriptId = ops[i].scriptId /\ row.userId = ops[i].userId
      rowCount == Cardinality({k \in DOMAIN scriptLikes : mine(scriptLikes[k])})
  IN /\ ops[i].action = "unlike"
     /\ ops[i].stage = "called"
     /\ rowCount > 0
     /\ scriptLikes' = SelectSeq(scriptLikes, LAMBDA row : ~mine(row))
     /\ ops' = [ops EXCEPT ![i].stage = "deleted", ![i].rowCount = rowCount]
     /\ UNCHANGED <<core, tasks, frames, web, sharedScripts>>

\* lines 272-276 and 283, the delete finds no row: return false
UnlikeMisses(i) ==
  /\ ops[i].action = "unlike"
  /\ ops[i].stage = "called"
  /\ \A k \in DOMAIN scriptLikes :
       ~(scriptLikes[k].scriptId = ops[i].scriptId
         /\ scriptLikes[k].userId = ops[i].userId)
  /\ ops' = [ops EXCEPT ![i].stage = "returned", ![i].success = FALSE]
  /\ UNCHANGED <<core, tasks, frames, web, scriptLikes, sharedScripts>>

\* lines 277-281: likes = likes - 1 on the script, then return true
UnlikeUpdate(i) ==
  /\ ops[i].action = "unlike"
  /\ ops[i].stage = "deleted"
  /\ sharedScripts' =
       IF ops[i].scriptId \in DOMAIN sharedScripts
       THEN [sharedScripts EXCEPT ![ops[i].scriptId].likes = @ - 1]
       ELSE sharedScripts
  /\ ops' = [ops EXCEPT ![i].stage = "returned", ![i].success = TRUE]
  /\ UNCHANGED <<core, tasks, frames, web, scriptLikes>>

\* one database step of one of the calls
StorageStep ==
  \E i \in DOMAIN ops :
    \/ LikeInsert(i) \/ LikeInsertFails(i) \/ LikeUpdate(i)
    \/ UnlikeDelete(i) \/ UnlikeMisses(i) \/ UnlikeUpdate(i)

\* the calls one after the other: a request is sent once every call has returned
SpecLikes ==
  InitLikes
    /\ [][Call(\A i \in DOMAIN ops : ops[i].stage = "returned") \/ StorageStep]_vars

\* the calls in any interleaving: a request is sent at any time
SpecLikesConcurrent == InitLikes /\ [][Call(TRUE) \/ StorageStep]_vars

Init == InitObfuscate \/ InitDeobfuscate \/ InitEncode \/ InitHeavy
          \/ InitLiterals \/ InitWords \/ InitLines
          \/ InitNames \/ InitRandom \/ InitTasks
          \/ InitProcess \/ InitInject \/ InitLikes
Next ==
  \/ Obfuscate \/ Deobfuscate \/ DeobfuscateAgain \/ Encode \/ Decode
  \/ NextTasks
  \/ Validate \/ Reject \/ Store \/ StoreFails
  \/ Call(TRUE) \/ StorageStep
Spec == Init /\ [][Next]_vars

\* ---------------------------------------------------------------- claims

Obfuscated == pc = "done" /\ request.mode = "obfuscate"
Deobfuscated == pc = "done" /\ request.mode = "deobfuscate"
Cfg == config(request.settings)
Source == request.inputCode
Output == result.outputCode

\* sub occurs in text
Contains(text, sub) == \E i \in 1..Len(text) : StartsAt(text, i, sub)

\* the positions where word occurs in text as a whole word
WordOccurrences(text, word) ==
  {i \in 1..Len(text) :
     /\ StartsAt(text, i, word)
     /\ ~(i > 1 /\ text[i - 1] \in WordChars)
     /\ ~(i + Len(word) <= Len(text) /\ text[i + Len(word)] \in WordChars)}

HasWord(text, word) == WordOccurrences(text, word) # {}

\* the reserved words as they are written in the table
ReservedWordSet == {reserved[i] : i \in 1..Len(reserved)}

\* the matches a left-to-right scan without overlap selects, given for every
\* position the position after the match that starts there (0: no match)
Selected(ends) ==
  LET sel[p \in 1..Len(ends)] ==
        ends[p] > 0 /\ \A q \in 1..(p - 1) : ~(sel[q] /\ ends[q] > p)
  IN {p \in 1..Len(ends) : sel[p]}

\* the names that follow the keyword and white space anywhere in the code
DeclaredNames(code, keyword) ==
  {DeclarationAt(code, p, keyword).name :
     p \in {q \in 1..Len(code) : DeclarationAt(code, q, keyword).end > 0}}

\* the names of the declarations a scan without overlap finds
ScannedNames(code, keyword) ==
  {DeclarationAt(code, p, keyword).name :
     p \in Selected([q \in 1..Len(code) |-> DeclarationAt(code, q, keyword).end])}

\* the words of a text whose words each end with a space
Words(text) ==
  LET parts == Split(text, 32) IN SubSeq(parts, 1, Len(parts) - 1)

\* C1: deobfuscate recognises every shape the name generator emits: in a text
\* of generated names, the Nth distinct name in first-occurrence order becomes
\* the Nth vocabulary entry, and variablesRenamed is the number of distinct
\* names (`_0x0001 _0002 __0003` gives player, character, humanoid and 3).
C1_AllShapesRestored ==
  LET words == Words(Source)
      rank(i) == Cardinality({words[j] : j \in 1..Min({k \in 1..i : words[k] = words[i]})})
  IN (/\ Deobfuscated
      /\ Len(words) > 0
      /\ Source[Len(Source)] = 32
      /\ \A i \in 1..Len(words) : \E n \in 0..3 : words[i] = generateObfuscatedName(n))
     => /\ result.variablesRenamed = Cardinality({words[i] : i \in 1..Len(words)})
        /\ Words(Output) = [i \in 1..Len(words) |-> commonNames[rank(i)]]

\* C2: with variableRenaming enabled, no member of the ReservedWordSet, as
\* written, is a key of the identifier map.
C2_NoReservedKey ==
  (Obfuscated /\ Cfg.variableRenaming)
    => (MapKeys(locals.variables) \cup MapKeys(locals.functions))
         \cap ReservedWordSet = {}

\* C3 as stated: with variableRenaming = true and stringEncoding = false,
\* variablesRenamed is the number k of distinct names declared with `local`
\* that are not in the ReservedWordSet.
C3_CountsLocalsOnly ==
  (Obfuscated /\ Cfg.variableRenaming /\ ~Cfg.stringEncoding)
    => result.variablesRenamed
         = Cardinality(DeclaredNames(Source, kwLocal) \ ReservedWordSet)

\* C3 as amended: with variableRenaming = true and stringEncoding = false,
\* variablesRenamed is the number of distinct names the scan for `local` finds
\* and isReservedWord lets through, plus the number of distinct names the scan
\* for `function` finds and isReservedWord lets through.
C3_CountsLocalsAndFunctions ==
  (Obfuscated /\ Cfg.variableRenaming /\ ~Cfg.stringEncoding)
    => result.variablesRenamed
         = Cardinality({n \in ScannedNames(Source, kwLocal) : ~isReservedWord(n)})
           + Cardinality({n \in ScannedNames(Source, kwFunction) : ~isReservedWord(n)})

\* a run that renamed one local and one function of the same source
C3_Witness ==
  /\ Obfuscated /\ Cfg.variableRenaming /\ ~Cfg.stringEncoding
  /\ Len(locals.variables) = 1
  /\ Len(locals.functions) = 1
  /\ result.variablesRenamed = 2

C5_CountedOncePerName ==
  (Obfuscated /\ Cfg.variableRenaming)
    => /\ result.variablesRenamed
            = Cardinality(MapKeys(locals.variables) \cup MapKeys(locals.functions))
       /\ \A i \in 1..Len(locals.variables), j \in 1..Len(locals.functions) :
            locals.variables[i].key = locals.functions[j].key
              => locals.variables[i].value = locals.functions[j].value

\* the string.char calls the decode step finds in the code: for every position
\* the position after the call that starts there, 0 when none starts there
CallEnds(code) ==
  [p \in 1..Len(code) |->
     IF CallCloseAt(code, p) > 0 THEN CallCloseAt(code, p) + 1 ELSE 0]

\* the argument list of the call that starts at p has a token that is no number
HasNonNumericToken(code, p) ==
  LET parts == SplitCommas(SubSeq(code, p + Len(strChar), CallCloseAt(code, p) - 1))
  IN \E i \in 1..Len(parts) : parseInt(Trim(parts[i])).nan

\* C6: a matched string.char call whose argument list has a non-numeric token
\* is left unchanged in the output and does not count in stringsEncoded.
C6_FailedDecodeLeftAlone ==
  LET calls == Selected(CallEnds(Source))
      failed == {p \in calls : HasNonNumericToken(Source, p)}
  IN Deobfuscated
       => /\ result.stringsEncoded = Cardinality(calls \ failed)
          /\ \A p \in failed :
               Contains(Output, SubSeq(Source, p, CallCloseAt(Source, p)))

\* C7: every statement generateDummyCode can return is removed: a dummy
\* statement that is a line of the input does not occur in the output.
C7_EveryDummyRemoved ==
  Deobfuscated
    => \A i \in 1..Len(dummyPatterns) :
         (\E j \in 1..Len(SplitLines(Source)) : SplitLines(Source)[j] = dummyPatterns[i])
           => ~Contains(Output, dummyPatterns[i])

\* C8: with variableRenaming, stringEncoding and controlFlowObfuscation all
\* false, at every level, obfuscate returns the source unchanged and both
\* counters 0.
C8_IdentityWhenAllOff ==
  (/\ Obfuscated
   /\ request.settings # NoSettings
   /\ \E lv \in Levels : request.settings = SomeSettings(FALSE, FALSE, FALSE, lv))
    => result = [outputCode |-> Source, variablesRenamed |-> 0, stringsEncoded |-> 0]

\* a run with every pass off on a source that declares a local and holds a
\* string literal, at level heavy
C8_Witness ==
  /\ Obfuscated
  /\ request.settings = SomeSettings(FALSE, FALSE, FALSE, "heavy")
  /\ ScannedNames(Source, kwLocal) # {}
  /\ Contains(Source, <<34, 112, 34>>)
  /\ Output = Source

\* C9: a content encoded at level light and put through the decode step is
\* back as one literal with exactly that content, counted as one decode.
C9_LightRoundTrip ==
  (enc.stage = "decoded" /\ enc.level = "light")
    => enc.decoded = [text |-> <<34>> \o enc.content \o <<34>>, decoded |-> 1]

\* one string.char call listing the codes of the characters of text in order
CallListing(text) ==
  strChar \o Join([i \in 1..Len(text) |-> NumberToString(text[i], 10)], <<44, 32>>)
          \o <<41>>

\* C10: the expression emitted at level light is one string.char call listing
\* every character code of the content in order; at level medium it is the
\* ..-concatenation of such calls over the consecutive 2-character chunks of
\* the content, no character dropped or reordered.
C10_DenotesContent ==
  LET n == Len(enc.content)
      chunk(i) == SubSeq(enc.content, 2 * i - 1, IF 2 * i <= n THEN 2 * i ELSE n)
  IN /\ (enc.stage \in {"encoded", "decoded"} /\ enc.level = "light")
          => enc.expression = CallListing(enc.content)
     /\ (enc.stage \in {"encoded", "decoded"} /\ enc.level = "medium")
          => enc.expression
               = Join([i \in 1..((n + 1) \div 2) |-> CallListing(chunk(i))],
                      <<32, 46, 46, 32>>)

\* the term of one character code c with the offset o, as it is written
HeavyTerm(c, o) ==
  <<40>> \o NumberToString(c + o, 10) \o <<32, 45, 32>> \o NumberToString(o, 10)
         \o <<41>>

\* C11: at level heavy the expression is one string.char call with one term
\* per character, in order; the term of the character with code c (the code
\* of its first unit) is `(<c+o> - <o>)` for the offset o = d + 1 of the
\* character's draw d, so 1 <= o <= 10, the term evaluates to c and its first
\* number is not c.
C11_HeavyTerms ==
  LET chars == ArrayFrom(enc.content)
      o(i) == rnd[((i - 1) % Len(rnd)) + 1] + 1
  IN (enc.stage \in {"encoded", "decoded"} /\ enc.level = "heavy")
       => /\ enc.expression
               = strChar \o Join([i \in 1..Len(chars) |-> HeavyTerm(chars[i][1], o(i))],
                                 <<44, 32>>)
                         \o <<41>>
          /\ \A i \in 1..Len(chars) :
               /\ o(i) \in 1..10
               /\ (chars[i][1] + o(i)) - o(i) = chars[i][1]
               /\ chars[i][1] + o(i) # chars[i][1]

\* two characters encoded at level heavy with the least and the greatest offset
C11_Witness ==
  /\ enc.stage = "encoded"
  /\ enc.level = "heavy"
  /\ Len(ArrayFrom(enc.content)) = 2
  /\ rnd = <<0, 9>>
  /\ enc.expression = strChar \o HeavyTerm(enc.content[1], 1) \o <<44, 32>>
                              \o HeavyTerm(enc.content[2], 10) \o <<41>>

\* the first quote q at or after j that no backslash escapes; 0 when none
RECURSIVE QuoteClose(_, _, _)
QuoteClose(text, j, q) ==
  IF j > Len(text) THEN 0
  ELSE IF text[j] = 92 THEN QuoteClose(text, j + 2, q)
  ELSE IF text[j] = q THEN j
  ELSE QuoteClose(text, j + 1, q)

\* the string literals of a text from position p on, left to right: a quote
\* of either kind opens a literal that ends at the first unescaped quote of
\* the same kind; a quote with no such end opens no literal
RECURSIVE Literals(_, _)
Literals(text, p) ==
  IF p > Len(text) THEN <<>>
  ELSE IF text[p] \notin {34, 39} THEN Literals(text, p + 1)
  ELSE LET close == QuoteClose(text, p + 1, text[p])
       IN IF close = 0 THEN Literals(text, p + 1)
          ELSE <<[open |-> p, close |-> close]>> \o Literals(text, close + 1)

\* C12: with stringEncoding enabled and variableRenaming off, stringsEncoded
\* is the number of non-empty string literals of the source, also when a
\* literal of one kind holds quotes of the other kind; a source whose
\* literals are all empty is returned unchanged.
C12_CountsLiterals ==
  LET lits == Literals(Source, 1)
      nonEmpty == {i \in 1..Len(lits) : lits[i].close > lits[i].open + 1}
  IN (Obfuscated /\ Cfg.stringEncoding /\ ~Cfg.variableRenaming)
       => /\ result.stringsEncoded = Cardinality(nonEmpty)
          /\ nonEmpty = {} => Output = Source

\* C14: when the last quote character of the source opens a string that is
\* never closed (it lies in no literal), obfuscate with stringEncoding enabled
\* returns the result of the text before that quote, followed by the text
\* from that quote on, and counts what it counts for the text before it.
C14_UnterminatedUnchanged ==
  LET lits == Literals(Source, 1)
      quotes == {j \in 1..Len(Source) : Source[j] \in {34, 39}}
      open == Max(quotes)
      before == obfuscateCode(SubSeq(Source, 1, open - 1), request.settings, rnd)
  IN (/\ Obfuscated
      /\ Cfg.stringEncoding /\ ~Cfg.variableRenaming
      /\ quotes # {}
      /\ \A i \in 1..Len(lits) : lits[i].close < open)
       => /\ Output = before.outputCode \o From(Source, open)
          /\ result.stringsEncoded = before.stringsEncoded

\* a text cut into its maximal runs of word characters and the characters
\* between them, in order
RECURSIVE Runs(_, _)
Runs(text, i) ==
  IF i > Len(text) THEN <<>>
  ELSE IF text[i] \in WordChars
       THEN LET e == SkipIn(text, i, WordChars)
            IN <<SubSeq(text, i, e - 1)>> \o Runs(text, e)
       ELSE <<SubSeq(text, i, i)>> \o Runs(text, i + 1)

\* the names the run has mapped
MappedNames == MapKeys(locals.variables) \cup MapKeys(locals.functions)

\* the identifiers at the given places of the source that are no mapped name
\* but contain one as a proper substring
Containing(runs) ==
  {k \in 1..Len(runs) :
     /\ runs[k][1] \in WordChars
     /\ runs[k] \notin MappedNames
     /\ \E n \in MappedNames : Contains(runs[k], n)}

\* C13: renaming is whole-word: the output has the runs of the source, one
\* for one, and an identifier that is not mapped but contains a mapped name as
\* a proper substring is the same in the output.
C13_WholeWordOnly ==
  LET src == Runs(Source, 1)
      out == Runs(Output, 1)
  IN (Obfuscated /\ Cfg.variableRenaming /\ ~Cfg.stringEncoding
        /\ ~Cfg.controlFlowObfuscation)
       => /\ Len(out) = Len(src)
          /\ \A k \in Containing(src) : out[k] = src[k]

\* p is declared and renamed, and the source also has the identifier px,
\* which is in the output
C13_Witness ==
  /\ Obfuscated /\ Cfg.variableRenaming
  /\ <<112>> \in MappedNames
  /\ ~HasWord(Output, <<112>>)
  /\ \E k \in Containing(Runs(Source, 1)) : Runs(Source, 1)[k] = <<112, 120>>
  /\ HasWord(Output, <<112, 120>>)

\* a name of the shape the name generator emits: one of its prefixes, then
\* hexadecimal digits
GeneratedShape(word) ==
  \E i \in 1..Len(prefixes) :
    /\ StartsAt(word, 1, prefixes[i])
    /\ Len(word) > Len(prefixes[i])
    /\ \A k \in (Len(prefixes[i]) + 1)..Len(word) : word[k] \in HexDigits

\* the generated-shape tokens among the runs of a text, each once, in the
\* order of their first occurrence
ShapeTokens(runs) ==
  Unique(SelectSeq(runs, GeneratedShape), {})

\* the place of a token among the distinct tokens
Rank(tokens, token) == Min({n \in 1..Len(tokens) : tokens[n] = token})

\* C15: in a text of names and spaces, the Nth distinct generated-shape token
\* in first-occurrence order is replaced everywhere by the Nth vocabulary
\* entry, the tokens beyond the vocabulary length are unchanged, and
\* variablesRenamed is the number of distinct tokens, at most the vocabulary
\* length.
C15_PositionalUpToVocabulary ==
  LET src == Runs(Source, 1)
      out == Runs(Output, 1)
      tokens == ShapeTokens(src)
      expected(run) == IF GeneratedShape(run) /\ Rank(tokens, run) <= Len(commonNames)
                       THEN commonNames[Rank(tokens, run)]
                       ELSE run
  IN (Deobfuscated /\ \A k \in 1..Len(src) : src[k] = <<32>> \/ src[k][1] \in WordChars)
       => /\ out = [k \in 1..Len(src) |-> expected(src[k])]
          /\ result.variablesRenamed = Min({Len(tokens), Len(commonNames)})

\* the tokens the scan of the deobfuscator finds in a text
FoundTokens(code) ==
  {SubSeq(code, p, TokenEndAt(code, p) - 1) :
     p \in Selected([q \in 1..Len(code) |-> TokenEndAt(code, q)])}

\* C16: variablesRenamed of deobfuscate is the number of distinct tokens that
\* were substituted: a token the scan finds but that stands nowhere as a word
\* of the text the two decoding passes leave is not counted.
C16_CountsSubstituted ==
  LET decoded == DecodePairs(DecodeCalls(Source, 1).text, 1).text
  IN Deobfuscated
       => result.variablesRenamed
            = Cardinality({t \in FoundTokens(Source) : HasWord(decoded, t)})

\* C20: the input `string.char(104) .. string.char(105)` is replaced by the
\* one literal "hi" and counts as one decode.
C20_PairDecodedAsOne ==
  (/\ Deobfuscated
   /\ Source = StringChar(<<NumberToString(104, 10)>>) \o <<32, 46, 46, 32>>
                 \o StringChar(<<NumberToString(105, 10)>>))
    => result = [outputCode |-> <<34, 104, 105, 34>>,
                 variablesRenamed |-> 0,
                 stringsEncoded |-> 1]

\* a text with no obfuscation idiom: no string.char call, no token of the
\* generated shape, no dead-code pattern
NoIdiom(text) ==
  \A p \in 1..Len(text) :
    /\ ~StartsAt(text, p, strChar)
    /\ TokenEndAt(text, p) = 0
    /\ DummyEndAt(text, p, ifTrue) = 0
    /\ DummyEndAt(text, p, whileFalse) = 0
    /\ DummyEndAt(text, p, forLoop) = 0

\* the lines with every run of three or more empty lines made one empty line
RECURSIVE CollapseRuns(_, _)
CollapseRuns(lines, i) ==
  IF i > Len(lines) THEN <<>>
  ELSE IF Len(lines[i]) > 0 THEN <<lines[i]>> \o CollapseRuns(lines, i + 1)
  ELSE LET e == Min({k \in i..(Len(lines) + 1) : k > Len(lines) \/ Len(lines[k]) > 0})
       IN (IF e - i >= 3 THEN <<<<>>>> ELSE SubSeq(lines, i, e - 1))
            \o CollapseRuns(lines, e)

\* C17: in a text with no idiom whose lines are empty or hold a character
\* that is no white space, the first and the last line not empty, every run
\* of three or more blank lines becomes one blank line and the runs of one or
\* two blank lines stay as they are.
C17_CollapsesThreeOrMore ==
  LET lines == SplitLines(Source)
  IN (/\ Deobfuscated
      /\ NoIdiom(Source)
      /\ \A k \in 1..Len(lines) :
           Len(lines[k]) = 0 \/ \E j \in 1..Len(lines[k]) : lines[k][j] \notin WhiteSpace
      /\ Len(lines[1]) > 0
      /\ Len(lines[Len(lines)]) > 0)
       => Output = Join(CollapseRuns(lines, 1), <<10>>)

\* the idiom `if true then end` stands at p inside a longer construct: a word
\* character comes right before it or right after it
Embedded(text, p) ==
  \/ p > 1 /\ text[p - 1] \in WordChars
  \/ /\ p + Len(dummyPatterns[1]) <= Len(text)
     /\ text[p + Len(dummyPatterns[1])] \in WordChars

\* C18: a one-line text in which `if true then end` only occurs as part of a
\* longer construct (`elseif true then end`, `if true then enda`) is
\* returned unchanged.
C18_OnlyStandalone ==
  (/\ Deobfuscated
   /\ 10 \notin {Source[j] : j \in 1..Len(Source)}
   /\ Contains(Source, dummyPatterns[1])
   /\ \A p \in 1..Len(Source) :
        DummyEndAt(Source, p, ifTrue) > 0 => Embedded(Source, p))
    => Output = Source

\* C19: for a text s with no idiom, deobfuscate(deobfuscate(s)) has the
\* outputCode of deobfuscate(s), whatever its blank and white-space-only
\* lines.
C19_IdempotentWithoutIdiom ==
  (pc = "again" /\ NoIdiom(Source))
    => Output = deobfuscateCode(Source).outputCode

\* a text with no idiom that the first run changed and the second left alone
C19_Witness ==
  /\ pc = "again"
  /\ NoIdiom(Source)
  /\ Output # Source
  /\ Output = deobfuscateCode(Source).outputCode
  /\ \E j \in 1..Len(Source) : Source[j] = 32

\* the four prefixes and the sixteen digits as the claim writes them
ClaimPrefixes == << <<95, 48, 120>>, <<95>>, <<95, 95>>, <<95, 95, 95>> >>
LowerHex == <<48, 49, 50, 51, 52, 53, 54, 55, 56, 57, 97, 98, 99, 100, 101, 102>>

\* the four-digit zero-padded lowercase hexadecimal of n < 16^4
Hex4(n) ==
  << LowerHex[((n \div 4096) % 16) + 1], LowerHex[((n \div 256) % 16) + 1],
     LowerHex[((n \div 16) % 16) + 1], LowerHex[(n % 16) + 1] >>

NotReserved(word) == ~isReservedWord(word)

\* the names a scan for the keyword maps, each once, in first-occurrence order
RECURSIVE FirstOccurrences(_, _, _)
FirstOccurrences(code, keyword, places) ==
  IF places = {} THEN <<>>
  ELSE LET p == Min(places)
           name == DeclarationAt(code, p, keyword).name
           rest == FirstOccurrences(code, keyword, places \ {p})
       IN IF NotReserved(name)
          THEN <<name>> \o SelectSeq(rest, LAMBDA n : n # name)
          ELSE rest

MappedInOrder(code, keyword) ==
  FirstOccurrences(code, keyword,
    Selected([q \in 1..Len(code) |-> DeclarationAt(code, q, keyword).end]))

\* C21: the mappings of a run, the locals in first-occurrence order and then
\* the functions, have the indices 0, 1, 2, ...: the i-th gets the prefix
\* i mod 4 of ('_0x', '_', '__', '___') and the four-digit lowercase hex of
\* i + 1, and the generated names are pairwise distinct.
C21_NamesByIndex ==
  LET all == locals.variables \o locals.functions
  IN (Obfuscated /\ Cfg.variableRenaming)
       => /\ [i \in 1..Len(locals.variables) |-> locals.variables[i].key]
               = MappedInOrder(Source, kwLocal)
          /\ [i \in 1..Len(locals.functions) |-> locals.functions[i].key]
               = MappedInOrder(Source, kwFunction)
          /\ \A i \in 1..Len(all) :
               all[i].value = ClaimPrefixes[((i - 1) % 4) + 1] \o Hex4(i)
          /\ \A i, j \in 1..Len(all) : i # j => all[i].value # all[j].value

\* a run with two locals and three functions: the fifth mapping has the first
\* prefix again
C21_Witness ==
  /\ Obfuscated /\ Cfg.variableRenaming
  /\ Len(locals.variables) = 2
  /\ Len(locals.functions) = 3
  /\ locals.functions[3].value = <<95, 48, 120, 48, 48, 48, 53>>

\* the settings under which obfuscate reads no random draw
Deterministic(cfg) ==
  /\ ~cfg.controlFlowObfuscation
  /\ cfg.obfuscationLevel # "heavy" \/ ~cfg.stringEncoding

Alone(task) ==
  IF task.request.mode = "obfuscate"
  THEN obfuscateCode(task.request.inputCode, task.request.settings, task.draws)
  ELSE deobfuscateCode(task.request.inputCode)

\* C23: whatever the interleaving of the calls in flight, a call that has
\* returned has the result of that call run alone on its own request.
C23_NoInterference ==
  \A h \in DOMAIN tasks :
    tasks[h].stage = "returned" => tasks[h].result = Alone(tasks[h])

\* the second call has returned with renamed names while the first call,
\* entered before, is still between its renaming and its string pass
C23_Witness ==
  /\ Len(tasks) >= 2
  /\ tasks[1].stage = "renamed"
  /\ tasks[2].stage = "returned"
  /\ tasks[2].result.variablesRenamed > 0
  /\ tasks[2].result.outputCode # tasks[2].request.inputCode
  /\ tasks[1].request # tasks[2].request

\* a request body that passes the validation the route describes
WellFormed(raw) ==
  \/ raw.type = "undefined"
  \/ /\ raw.type = "object"
     /\ \A flag \in {raw.variableRenaming, raw.stringEncoding,
                     raw.controlFlowObfuscation} :
          flag \in {<<>>, <<"true">>, <<"false">>}
     /\ raw.obfuscationLevel \in {<<>>, <<"light">>, <<"medium">>, <<"heavy">>}
Valid(body) ==
  /\ body.inputCode # <<>>
  /\ body.mode \in {"obfuscate", "deobfuscate"}
  /\ WellFormed(body.settings)

\* C24: a body that fails validation is answered 400 with the core never
\* called and no record stored; a record exists only once the core has
\* returned and carries the outputCode and the two counters it returned.
C24_ValidatedBeforeCore ==
  /\ (http.stage # "none" /\ ~Valid(http.body)) =>
        /\ pc = "idle"
        /\ result = NoResult
        /\ processedScripts = <<>>
        /\ http.stage \in {"received", "responded"}
        /\ http.stage = "responded" => http.status = 400
  /\ \A i \in DOMAIN processedScripts :
        /\ pc = "done"
        /\ processedScripts[i].outputCode = result.outputCode
        /\ processedScripts[i].variablesRenamed = result.variablesRenamed
        /\ processedScripts[i].stringsEncoded = result.stringsEncoded

\* a request with settings was answered 200 and its record has both counters
C24_Witness ==
  /\ http.stage = "responded"
  /\ http.status = 200
  /\ http.body.settings.type = "object"
  /\ Len(processedScripts) = 1
  /\ processedScripts[1].variablesRenamed > 0
  /\ processedScripts[1].stringsEncoded > 0
  /\ processedScripts[1].outputCode # http.body.inputCode

\* the text the injection loop is given: the output of the same request with
\* controlFlowObfuscation off
PreInjection ==
  obfuscateCode(Source, <<[Cfg EXCEPT !.controlFlowObfuscation = FALSE]>>, rnd).outputCode

\* a line that is blank or, once trimmed, starts with --
BlankOrComment(line) ==
  \/ \A k \in 1..Len(line) : line[k] \in WhiteSpace
  \/ \E k \in 1..Len(line) :
       /\ \A j \in 1..(k - 1) : line[j] \in WhiteSpace
       /\ StartsAt(line, k, <<45, 45>>)

\* out is pre with at most one dummy statement after each line of pre, and
\* none after a blank or comment line
RECURSIVE OnlyAdds(_, _)
OnlyAdds(pre, out) ==
  IF Len(pre) = 0 THEN Len(out) = 0
  ELSE /\ Len(out) >= 1
       /\ out[1] = pre[1]
       /\ \/ OnlyAdds(Tail(pre), Tail(out))
          \/ /\ Len(out) >= 2
             /\ \E k \in 1..Len(dummyPatterns) : out[2] = dummyPatterns[k]
             /\ ~BlankOrComment(pre[1])
             /\ OnlyAdds(Tail(pre), Tail(Tail(out)))

\* C25: the injection only adds lines: the output is the pre-injection text
\* with at most one statement of the dummy set after each of its lines, and
\* none after a blank line or a line that starts, once trimmed, with --.
C25_OnlyAddsLines ==
  (Obfuscated /\ Cfg.controlFlowObfuscation) =>
     OnlyAdds(SplitLines(PreInjection), SplitLines(Output))

\* every draw is above 0.8, the text has a blank and a comment line, and a
\* dummy line was inserted
C25_Witness ==
  /\ Obfuscated
  /\ Cfg.controlFlowObfuscation
  /\ \A k \in 1..Len(rnd) : rnd[k] >= 8
  /\ \E k \in 1..Len(SplitLines(Source)) : SplitLines(Source)[k] = <<>>
  /\ \E k \in 1..(Len(SplitLines(Source)) - 1) :
       /\ Len(SplitLines(Source)[k]) > 0
       /\ BlankOrComment(SplitLines(Source)[k])
  /\ Len(SplitLines(Output)) > Len(SplitLines(PreInjection))

\* C26: after the substitution pass alone, two different declared names are
\* never written as the same identifier in outputCode, and a mapped name is
\* never rewritten to an identifier the source already has, also when the
\* source has identifiers of the generated shape.
C26_DistinctStayDistinct ==
  LET src == Runs(Source, 1)
      out == Runs(Output, 1)
  IN (/\ Obfuscated
      /\ Cfg.variableRenaming
      /\ ~Cfg.stringEncoding
      /\ ~Cfg.controlFlowObfuscation)
     => /\ Len(out) = Len(src)
        /\ \A i, j \in 1..Len(src) :
             (src[i] \in MappedNames /\ src[j] \in MappedNames /\ src[i] # src[j])
               => out[i] # out[j]
        /\ \A i \in 1..Len(src) :
             (src[i] \in MappedNames /\ out[i] # src[i])
               => out[i] \notin {src[k] : k \in 1..Len(src)}

\* the expression that denotes content at level medium: one string.char call
\* for every chunk of two characters, joined by ..
MediumListing(content) ==
  LET n == Len(content)
      chunk(i) == SubSeq(content, 2 * i - 1, IF 2 * i <= n THEN 2 * i ELSE n)
  IN Join([i \in 1..((n + 1) \div 2) |-> CallListing(chunk(i))], <<32, 46, 46, 32>>)

\* C27: with variableRenaming and stringEncoding both on (level medium, no
\* injection), the output has, for every non-empty string literal of the
\* source, the expression that denotes the content the literal has in the
\* source, also when that content is a declared identifier.
C27_LiteralContentKept ==
  LET lits == Literals(Source, 1)
  IN (/\ Obfuscated
      /\ Cfg.variableRenaming
      /\ Cfg.stringEncoding
      /\ ~Cfg.controlFlowObfuscation
      /\ Cfg.obfuscationLevel = "medium")
     => \A k \in 1..Len(lits) :
          lits[k].close > lits[k].open + 1
            => Contains(Output,
                        MediumListing(SubSeq(Source, lits[k].open + 1,
                                             lits[k].close - 1)))

\* the user has a like row for the script
HasLiked(scriptId, userId) ==
  \E k \in DOMAIN scriptLikes :
    scriptLikes[k].scriptId = scriptId /\ scriptLikes[k].userId = userId

\* C28: the first database step of a likeScript call for a user who already
\* has a like row for the script returns false and leaves the like rows and the
\* likes counter as they are.
C28_SecondLikeRefused ==
  [][\A i \in DOMAIN ops :
       (/\ ops[i].action = "like"
        /\ ops[i].stage = "called"
        /\ ops'[i].stage # "called"
        /\ HasLiked(ops[i].scriptId, ops[i].userId))
       => /\ ops'[i].stage = "returned"
          /\ ~ops'[i].success
          /\ scriptLikes' = scriptLikes
          /\ sharedScripts' = sharedScripts]_vars

\* C29: once every likeScript and unlikeScript call on the script has
\* returned, its likes counter is the number of its like rows.
C29_CounterIsRowCount ==
  (\A i \in DOMAIN ops : ops[i].stage = "returned")
    => \A s \in DOMAIN sharedScripts :
         sharedScripts[s].likes
           = Cardinality({k \in DOMAIN scriptLikes : scriptLikes[k].scriptId = s})

\* C30: in every state of every interleaving of the calls the likes counter
\* of a script is at least 0.
C30_NeverNegative ==
  \A s \in DOMAIN sharedScripts : sharedScripts[s].likes >= 0
====
